---- MODULE Spec2Model ----
(***************************************************************************)
(* Session reconstruction and importance scoring of Graph_MCP.             *)
(*                                                                         *)
(* Timestamps are datetimes of one UTC offset, held as seconds since       *)
(* midnight of day 0.  Scores are held in hundredths of a point, so that a *)
(* revenue of 49.99 is the integer 4999 and the weight 50 is 5000.         *)
(* Optional values are sequences: <<>> is None and <<v>> is the value v.   *)
(***************************************************************************)
EXTENDS Integers, Sequences, FiniteSets, TLC

VARIABLES events, total_score, importance_level, groups, session, pc

\* the row handed to the Event Parser and what the parser returned
VARIABLES row, parsed

parseVars == <<row, parsed>>

\* the session data handed to the Session Agent, the collaborator's reply and
\* what analyze_session gave back
VARIABLES session_data, response, analysis

agentVars == <<session_data, response, analysis>>

\* the two narrative fields of the session, once computed
VARIABLES departure_mystery, confidence_score

narrVars == <<departure_mystery, confidence_score>>

\* an orchestrator's run: what the environment did to each session, the
\* result of each analysis, the list returned and the counters
VARIABLES injected, analysed, returned, counts

orchVars == <<injected, analysed, returned, counts>>

\* the run of create_graph_structure
VARIABLES graph

\* the templates generated from the results and the Sessions read back
VARIABLES templates, restored

tplVars == <<templates, restored>>

\* the rows of the CSV file given to process_csv_file, and the run of
\* run_analysis: the nodes of the database, the driver and how the run ended
VARIABLES csv_rows, run

runVars == <<csv_rows, run>>

ext == <<parseVars, agentVars, narrVars, orchVars, graph, tplVars, runVars>>

vars == <<events, total_score, importance_level, groups, session, pc, ext>>

(***************************************************************************)
(* Bounds of the explored inputs.                                          *)
(***************************************************************************)
\* number of freely chosen events at the head of a scored event list
MaxRich == 2
\* longest scored event list (the head followed by plain page views)
MaxEvents == 22
\* longest event list handed to the groupers
MaxLen == 3
\* most add_event calls on one Session
MaxAdds == 3

Points(n) == n * 100

None == <<>>
Some(v) == <<v>>

(***************************************************************************)
(* SessionProcessor.__init__ : the weight table, in points.                *)
(***************************************************************************)
event_importance_weights ==
    ("Order Completed" :> 50) @@ ("Purchase" :> 50) @@
    ("Payment Processed" :> 50) @@ ("Vet Appointment Booked" :> 45) @@
    ("Prescription Ordered" :> 40) @@ ("Autoship Created" :> 35) @@
    ("Product Added" :> 25) @@ ("Checkout Started" :> 25) @@
    ("Cart Updated" :> 20) @@ ("Account Created" :> 30) @@
    ("Profile Updated" :> 20) @@ ("Review Submitted" :> 15) @@
    ("Product Viewed" :> 5) @@ ("Search Performed" :> 8) @@
    ("Category Browsed" :> 3) @@ ("Video Watched" :> 10) @@
    ("Content Engaged" :> 7) @@ ("Page Viewed" :> 1) @@
    ("Button Clicked" :> 2) @@ ("Link Clicked" :> 2) @@
    ("Scroll Reached" :> 1)

(***************************************************************************)
(* SessionAnalysisAgent.__init__ : the tier cut-offs, in points.           *)
(***************************************************************************)
importance_thresholds ==
    [critical |-> 40, significant |-> 20, moderate |-> 8, low |-> 0]

(***************************************************************************)
(* SessionEvent: the fields the grouping and the scoring read.             *)
(* properties is None (<<>>) or a record holding the session_id entry.     *)
(***************************************************************************)
SessionEvent(id, name, ts, cat, rev, props) ==
    [event_id |-> id, event_name |-> name, event_timestamp |-> ts,
     event_category |-> cat, revenue |-> rev, properties |-> props]

(***************************************************************************)
(* _determine_importance, lines 364-379: the terms one event adds.         *)
(***************************************************************************)
NameScore(event) ==
    IF event.event_name \in DOMAIN event_importance_weights
    THEN Points(event_importance_weights[event.event_name])
    ELSE 0

CategoryScore(event) ==
    IF event.event_category = "ecommerce" THEN Points(15)
    ELSE IF event.event_category = "vet_care" THEN Points(20)
    ELSE IF event.event_category = "product" THEN Points(5)
    ELSE 0

Min(a, b) == IF a < b THEN a ELSE b

\* the revenue bonus without the test for a positive amount
RevenueScoreAnySign(event) ==
    IF event.revenue # None /\ event.revenue[1] # 0
    THEN Min(event.revenue[1], Points(50))
    ELSE 0

RevenueScore(event) ==
    IF event.revenue # None /\ event.revenue[1] # 0 /\ event.revenue[1] > 0
    THEN Min(event.revenue[1], Points(50))
    ELSE 0

RECURSIVE EventLoop(_, _, _)
EventLoop(evs, i, acc) ==
    IF i > Len(evs) THEN acc
    ELSE EventLoop(evs, i + 1,
                   acc + NameScore(evs[i]) + CategoryScore(evs[i])
                       + RevenueScore(evs[i]))

\* the volume bonus with the high cut-off off by one
EngagementBonusFromTwenty(evs) ==
    IF Len(evs) >= 20 THEN Points(15)
    ELSE IF Len(evs) > 10 THEN Points(8)
    ELSE 0

\* lines 381-385
EngagementBonus(evs) ==
    IF Len(evs) > 20 THEN Points(15)
    ELSE IF Len(evs) > 10 THEN Points(8)
    ELSE 0

\* lines 387-393; duration_minutes > m is seconds > 60 * m
DurationBonus(evs) ==
    IF Len(evs) > 1
    THEN LET duration_seconds ==
                 evs[Len(evs)].event_timestamp - evs[1].event_timestamp
         IN  IF duration_seconds > 30 * 60 THEN Points(10)
             ELSE IF duration_seconds > 10 * 60 THEN Points(5)
             ELSE 0
    ELSE 0

\* the value of total_score when line 395 is reached
TotalScore(evs) ==
    EventLoop(evs, 1, 0) + EngagementBonus(evs) + DurationBonus(evs)

\* the classification with a strict comparison at the critical cut-off
ClassifyScoreStrict(score) ==
    IF score > Points(importance_thresholds.critical) THEN "critical"
    ELSE IF score >= Points(importance_thresholds.significant)
         THEN "significant"
    ELSE IF score >= Points(importance_thresholds.moderate) THEN "moderate"
    ELSE "low"

\* lines 395-403
ClassifyScore(score) ==
    IF score >= Points(importance_thresholds.critical) THEN "critical"
    ELSE IF score >= Points(importance_thresholds.significant)
         THEN "significant"
    ELSE IF score >= Points(importance_thresholds.moderate) THEN "moderate"
    ELSE "low"

(***************************************************************************)
(* Inputs of the scorer.  The first event is at time 0 (the score depends  *)
(* on timestamps only through last minus first); a list is a head of       *)
(* freely chosen events followed by plain page views at the time of the    *)
(* event before them.                                                      *)
(***************************************************************************)
ScoreShapes ==
    {[n |-> "Purchase", c |-> "ecommerce", r |-> Some(4999)],
     [n |-> "Order Completed", c |-> "None", r |-> None],
     [n |-> "Payment Processed", c |-> "engagement", r |-> Some(0)],
     [n |-> "Vet Appointment Booked", c |-> "vet_care", r |-> None],
     [n |-> "Prescription Ordered", c |-> "None", r |-> None],
     [n |-> "Prescription Ordered", c |-> "navigation", r |-> Some(-500)],
     [n |-> "Account Created", c |-> "None", r |-> None],
     [n |-> "Search Performed", c |-> "None", r |-> None],
     [n |-> "Custom Event", c |-> "ecommerce", r |-> None],
     [n |-> "Custom Event", c |-> "product", r |-> None],
     [n |-> "Custom Event", c |-> "account", r |-> Some(7500)],
     [n |-> "Custom Event", c |-> "None", r |-> Some(3900)]}

ScoreTimes == {600, 660, 1800, 1860}

PadEvent(evs) ==
    SessionEvent(Len(evs) + 1, "Page Viewed", evs[Len(evs)].event_timestamp,
                 "None", None, None)

NoSession == None

(***************************************************************************)
(* Initial state: nothing read, nothing scored, no Session built.  pc      *)
(* names the component that is driven: the scorer, the groupers or a       *)
(* Session object.                                                         *)
(***************************************************************************)
Init ==
    /\ events = <<>>
    /\ total_score = 0
    /\ importance_level = "low"
    /\ groups = <<>>
    /\ session = NoSession
    /\ row = None
    /\ parsed = None
    /\ session_data = None
    /\ response = None
    /\ analysis = None
    /\ departure_mystery = None
    /\ confidence_score = None
    /\ graph = [sessions |-> <<>>, i |-> 1, success_count |-> 0,
                failure_count |-> 0, attempts |-> <<>>, written |-> <<>>]
    /\ templates = <<>>
    /\ restored = <<>>
    /\ injected = <<>>
    /\ analysed = <<>>
    /\ returned = <<>>
    /\ counts = [skipped_short |-> 0, skipped_low_importance |-> 0,
                 ai_failures |-> 0]
    /\ csv_rows = <<>>
    /\ run = [found |-> [webdata |-> 0, sessions |-> 0],
              old_webdata |-> 0, old_sessions |-> 0, webdata |-> 0,
              session_nodes |-> <<>>, step |-> "none", input_read |-> FALSE,
              driver_open |-> TRUE, raised |-> FALSE]
    /\ pc \in {"score_input", "group_input", "no_session", "parse_input",
              "agent_input", "no_narrative",
              "orch_input", "graph_input",
              "tpl_input", "csv_input", "run_input"}

InitScore == Init /\ pc = "score_input"

AddScoreEvent ==
    /\ pc = "score_input"
    /\ Len(events) < MaxRich
    /\ \E s \in ScoreShapes :
       \E ts \in IF events = <<>> THEN {0} ELSE ScoreTimes :
          events' = Append(events, SessionEvent(Len(events) + 1, s.n, ts, s.c, s.r, None))
    /\ UNCHANGED <<total_score, importance_level, groups, session, pc>>
    /\ UNCHANGED ext

AddPadEvent ==
    /\ pc \in {"score_input", "padded"}
    /\ events # <<>>
    /\ Len(events) < MaxEvents
    /\ events' = Append(events, PadEvent(events))
    /\ pc' = "padded"
    /\ UNCHANGED <<total_score, importance_level, groups, session>>
    /\ UNCHANGED ext

\* SessionAnalysisAgent._determine_importance
DetermineImportance ==
    /\ pc \in {"score_input", "padded"}
    /\ total_score' = TotalScore(events)
    /\ importance_level' = ClassifyScore(TotalScore(events))
    /\ pc' = "scored"
    /\ UNCHANGED <<events, groups, session>>
    /\ UNCHANGED ext

NextScore == AddScoreEvent \/ AddPadEvent \/ DetermineImportance

SpecScore == InitScore /\ [][NextScore]_vars

(***************************************************************************)
(* Grouping.                                                               *)
(***************************************************************************)
\* SessionAnalysisAgent.__init__ : the default customer
customer_id == 289824860

\* the fields strftime reads from a timestamp
Day(ts) == ts \div 86400
Hour(ts) == (ts % 86400) \div 3600
Minute(ts) == (ts % 3600) \div 60

\* sorted(events, key=lambda e: e.event_timestamp): one step of the stable
\* sort puts e behind every element that is not later than e
SortInsertBeforeEqual(sorted_events, e) ==
    LET k == Cardinality({i \in 1..Len(sorted_events) :
                 sorted_events[i].event_timestamp < e.event_timestamp})
    IN  SubSeq(sorted_events, 1, k) \o <<e>>
            \o SubSeq(sorted_events, k + 1, Len(sorted_events))

SortInsert(sorted_events, e) ==
    LET k == Cardinality({i \in 1..Len(sorted_events) :
                 sorted_events[i].event_timestamp <= e.event_timestamp})
    IN  SubSeq(sorted_events, 1, k) \o <<e>>
            \o SubSeq(sorted_events, k + 1, Len(sorted_events))

RECURSIVE SortLoop(_, _, _)
SortLoop(evs, i, acc) ==
    IF i > Len(evs) THEN acc
    ELSE SortLoop(evs, i + 1, SortInsert(acc, evs[i]))

Sorted(evs) == SortLoop(evs, 1, <<>>)

\* sessions[key] = [event] in place of the append
DictAssign(sessions, key, event) ==
    IF \E k \in 1..Len(sessions) : sessions[k].session_id = key
    THEN LET k == CHOOSE k \in 1..Len(sessions) : sessions[k].session_id = key
         IN  [sessions EXCEPT ![k].events = <<event>>]
    ELSE Append(sessions, [session_id |-> key, events |-> <<event>>])

\* sessions[key].append(event) on a defaultdict(list); the dict keeps the
\* order in which its keys were first used
DictAppend(sessions, key, event) ==
    IF \E k \in 1..Len(sessions) : sessions[k].session_id = key
    THEN LET k == CHOOSE k \in 1..Len(sessions) : sessions[k].session_id = key
         IN  [sessions EXCEPT ![k].events = Append(@, event)]
    ELSE Append(sessions, [session_id |-> key, events |-> <<event>>])

\* the test with a timeout of one hour
StartsNewSessionHour(current_session_start, event) ==
    \/ current_session_start = None
    \/ event.event_timestamp - current_session_start[1] > 3600

\* group_events_by_session, lines 170-171: the test that opens a session
StartsNewSession(current_session_start, event) ==
    \/ current_session_start = None
    \/ event.event_timestamp - current_session_start[1] > 1800

\* line 173: f"session_{session_counter}_{strftime('%Y%m%d_%H%M')}"
IdleSessionId(session_counter, ts) ==
    <<"session", session_counter, Day(ts), Hour(ts), Minute(ts)>>

\* lines 168-177: the loop over sorted_events; cur_id and cur_start are
\* current_session_id and current_session_start
RECURSIVE IdleLoop(_, _, _, _, _, _)
IdleLoop(sorted_events, i, sessions, cur_id, cur_start, session_counter) ==
    IF i > Len(sorted_events) THEN sessions
    ELSE LET event == sorted_events[i] IN
         IF StartsNewSession(cur_start, event)
         THEN LET new_id == IdleSessionId(session_counter,
                                          event.event_timestamp)
              IN  IdleLoop(sorted_events, i + 1,
                           DictAppend(sessions, new_id, event), new_id,
                           Some(event.event_timestamp), session_counter + 1)
         ELSE IdleLoop(sorted_events, i + 1,
                       DictAppend(sessions, cur_id, event),
                       cur_id, cur_start, session_counter)

\* SessionProcessor.group_events_by_session
group_events_by_session(evs) ==
    IdleLoop(Sorted(evs), 1, <<>>, None, None, 1)

\* _group_events_by_session_id, lines 287-291: the identifier found in the
\* properties; None and the empty string are both <<>>
ExplicitSessionIdIgnored(event) == None

ExplicitSessionId(event) ==
    IF event.properties # None /\ "session_id" \in DOMAIN event.properties
    THEN event.properties.session_id
    ELSE None

\* lines 296-297: strftime('%Y%m%d_%H') + f"_{minute // 30}" behind
\* f"session_{customer_id}_"
BucketSessionIdHourly(ts) ==
    <<"session", customer_id, Day(ts), Hour(ts), 0>>

BucketSessionId(ts) ==
    <<"session", customer_id, Day(ts), Hour(ts), Minute(ts) \div 30>>

\* lines 286-299: the key of one event
SessionKey(event) ==
    IF ExplicitSessionId(event) = <<>>
    THEN BucketSessionId(event.event_timestamp)
    ELSE ExplicitSessionId(event)

RECURSIVE BucketLoop(_, _, _)
BucketLoop(sorted_events, i, sessions) ==
    IF i > Len(sorted_events) THEN sessions
    ELSE BucketLoop(sorted_events, i + 1,
                    DictAppend(sessions, SessionKey(sorted_events[i]),
                               sorted_events[i]))

\* SessionAnalysisAgent._group_events_by_session_id
group_events_by_session_id(evs) == BucketLoop(Sorted(evs), 1, <<>>)

(***************************************************************************)
(* Inputs of the groupers: 10:00:00, 10:29:59, 10:30:00, 10:45:00 and      *)
(* 11:00:01 of day 0 and 10:00:00 of day 1; no properties, or a session_id *)
(* entry that is "A", "B" or the empty string.                             *)
(***************************************************************************)
GroupTimes == {36000, 37799, 37800, 38700, 39601, 122400}

GroupProperties ==
    {None, [session_id |-> <<"A">>], [session_id |-> <<"B">>]}

GroupInputs ==
    {[ts |-> t, props |-> p] : t \in GroupTimes, p \in GroupProperties}
    \cup {[ts |-> 37800, props |-> [session_id |-> <<>>]]}

InitGroup == Init /\ pc = "group_input"

AddGroupEvent ==
    /\ pc = "group_input"
    /\ Len(events) < MaxLen
    /\ \E g \in GroupInputs :
          events' = Append(events,
                       SessionEvent(Len(events) + 1, "Page Viewed", g.ts,
                                    "None", None, g.props))
    /\ UNCHANGED <<total_score, importance_level, groups, session, pc>>
    /\ UNCHANGED ext

GroupEventsBySession ==
    /\ pc = "group_input"
    /\ groups' = group_events_by_session(events)
    /\ pc' = "grouped_idle"
    /\ UNCHANGED <<events, total_score, importance_level, session>>
    /\ UNCHANGED ext

GroupEventsBySessionId ==
    /\ pc = "group_input"
    /\ groups' = group_events_by_session_id(events)
    /\ pc' = "grouped_bucket"
    /\ UNCHANGED <<events, total_score, importance_level, session>>
    /\ UNCHANGED ext

\* _analyze_session, lines 307-321, on one emitted group
AnalyzeSession ==
    /\ pc \in {"grouped_idle", "grouped_bucket"}
    /\ \E k \in 1..Len(groups) :
          LET sorted_events == Sorted(groups[k].events) IN
          /\ session' = Some([session_id |-> groups[k].session_id,
                    customer_id |-> customer_id,
                    session_start |-> sorted_events[1].event_timestamp,
                    session_end |->
                        Some(sorted_events[Len(sorted_events)].event_timestamp),
                    events |-> sorted_events,
                    importance_level |->
                        ClassifyScore(TotalScore(sorted_events))])
    /\ pc' = "analyzed"
    /\ UNCHANGED <<events, groups, total_score, importance_level>>
    /\ UNCHANGED ext

NextGroup ==
    AddGroupEvent \/ GroupEventsBySession \/ GroupEventsBySessionId
        \/ AnalyzeSession

SpecGroup == InitGroup /\ [][NextGroup]_vars

(***************************************************************************)
(* A Session object and its add_event.                                     *)
(***************************************************************************)
SessionTimes == {36000, 37800, 39601}

InitSession == Init /\ pc = "no_session"

\* Session(session_id=..., customer_id=..., session_start=...)
NewSession ==
    /\ pc = "no_session"
    /\ \E start \in SessionTimes :
          session' = Some([session_id |-> <<"test_session_001">>,
                           customer_id |-> customer_id,
                           session_start |-> start,
                           session_end |-> None,
                           events |-> <<>>,
                           importance_level |-> "low"])
    /\ pc' = "session"
    /\ UNCHANGED <<events, total_score, importance_level, groups>>
    /\ UNCHANGED ext

\* Session.add_event
add_event(s, event) ==
    [s EXCEPT !.events = Append(@, event),
              !.session_end =
                  IF s.session_end = None
                     \/ event.event_timestamp > s.session_end[1]
                  THEN Some(event.event_timestamp)
                  ELSE @]

AddEvent ==
    /\ pc = "session"
    /\ Len(session[1].events) < MaxAdds
    /\ \E ts \in SessionTimes :
          session' = Some(add_event(session[1],
                        SessionEvent(Len(session[1].events) + 1,
                                     "Page Viewed", ts, "None", None, None)))
    /\ UNCHANGED <<events, total_score, importance_level, groups, pc>>
    /\ UNCHANGED ext

NextSession == NewSession \/ AddEvent

SpecSession == InitSession /\ [][NextSession]_vars

(***************************************************************************)
(* Strings.  A string is held as a TLA+ string; where the code looks       *)
(* inside a string (strip, lower, substring, replace) the characters are   *)
(* taken from Chars, which spells every string of the model.               *)
(***************************************************************************)
Chars ==
    ("Prescription Ordered" :> <<"P", "r", "e", "s", "c", "r", "i", "p", "t", "i", "o", "n", " ", "O", "r", "d", "e", "r", "e", "d">>)
    @@ ("Vet Appointment Booked" :> <<"V", "e", "t", " ", "A", "p", "p", "o", "i", "n", "t", "m", "e", "n", "t", " ", "B", "o", "o", "k", "e", "d">>)
    @@ ("Product Added" :> <<"P", "r", "o", "d", "u", "c", "t", " ", "A", "d", "d", "e", "d">>)
    @@ ("Product Viewed" :> <<"P", "r", "o", "d", "u", "c", "t", " ", "V", "i", "e", "w", "e", "d">>)
    @@ ("Add To Cart" :> <<"A", "d", "d", " ", "T", "o", " ", "C", "a", "r", "t">>)
    @@ ("Item Review" :> <<"I", "t", "e", "m", " ", "R", "e", "v", "i", "e", "w">>)
    @@ ("PURCHASE" :> <<"P", "U", "R", "C", "H", "A", "S", "E">>)
    @@ ("Login" :> <<"L", "o", "g", "i", "n">>)
    @@ ("Goal Complete" :> <<"G", "o", "a", "l", " ", "C", "o", "m", "p", "l", "e", "t", "e">>)
    @@ ("Profile Submit" :> <<"P", "r", "o", "f", "i", "l", "e", " ", "S", "u", "b", "m", "i", "t">>)
    @@ ("Search Performed" :> <<"S", "e", "a", "r", "c", "h", " ", "P", "e", "r", "f", "o", "r", "m", "e", "d">>)
    @@ ("Video Guide" :> <<"V", "i", "d", "e", "o", " ", "G", "u", "i", "d", "e">>)
    @@ ("Page Viewed" :> <<"P", "a", "g", "e", " ", "V", "i", "e", "w", "e", "d">>)
    @@ ("Health Exam" :> <<"H", "e", "a", "l", "t", "h", " ", "E", "x", "a", "m">>)
    @@ ("Buy Now" :> <<"B", "u", "y", " ", "N", "o", "w">>)
    @@ ("Reorder" :> <<"R", "e", "o", "r", "d", "e", "r">>)
    @@ ("Checkup Complete" :> <<"C", "h", "e", "c", "k", "u", "p", " ", "C", "o", "m", "p", "l", "e", "t", "e">>)
    @@ ("Home" :> <<"H", "o", "m", "e">>)
    @@ ("purchase" :> <<"p", "u", "r", "c", "h", "a", "s", "e">>)
    @@ ("order" :> <<"o", "r", "d", "e", "r">>)
    @@ ("cart" :> <<"c", "a", "r", "t">>)
    @@ ("checkout" :> <<"c", "h", "e", "c", "k", "o", "u", "t">>)
    @@ ("payment" :> <<"p", "a", "y", "m", "e", "n", "t">>)
    @@ ("vet" :> <<"v", "e", "t">>)
    @@ ("veterinary" :> <<"v", "e", "t", "e", "r", "i", "n", "a", "r", "y">>)
    @@ ("appointment" :> <<"a", "p", "p", "o", "i", "n", "t", "m", "e", "n", "t">>)
    @@ ("health" :> <<"h", "e", "a", "l", "t", "h">>)
    @@ ("medical" :> <<"m", "e", "d", "i", "c", "a", "l">>)
    @@ ("prescription" :> <<"p", "r", "e", "s", "c", "r", "i", "p", "t", "i", "o", "n">>)
    @@ ("medication" :> <<"m", "e", "d", "i", "c", "a", "t", "i", "o", "n">>)
    @@ ("treatment" :> <<"t", "r", "e", "a", "t", "m", "e", "n", "t">>)
    @@ ("exam" :> <<"e", "x", "a", "m">>)
    @@ ("checkup" :> <<"c", "h", "e", "c", "k", "u", "p">>)
    @@ ("product" :> <<"p", "r", "o", "d", "u", "c", "t">>)
    @@ ("item" :> <<"i", "t", "e", "m">>)
    @@ ("add to cart" :> <<"a", "d", "d", " ", "t", "o", " ", "c", "a", "r", "t">>)
    @@ ("buy" :> <<"b", "u", "y">>)
    @@ ("review" :> <<"r", "e", "v", "i", "e", "w">>)
    @@ ("rating" :> <<"r", "a", "t", "i", "n", "g">>)
    @@ ("login" :> <<"l", "o", "g", "i", "n">>)
    @@ ("register" :> <<"r", "e", "g", "i", "s", "t", "e", "r">>)
    @@ ("account" :> <<"a", "c", "c", "o", "u", "n", "t">>)
    @@ ("profile" :> <<"p", "r", "o", "f", "i", "l", "e">>)
    @@ ("conversion" :> <<"c", "o", "n", "v", "e", "r", "s", "i", "o", "n">>)
    @@ ("goal" :> <<"g", "o", "a", "l">>)
    @@ ("complete" :> <<"c", "o", "m", "p", "l", "e", "t", "e">>)
    @@ ("submit" :> <<"s", "u", "b", "m", "i", "t">>)
    @@ ("search" :> <<"s", "e", "a", "r", "c", "h">>)
    @@ ("filter" :> <<"f", "i", "l", "t", "e", "r">>)
    @@ ("compare" :> <<"c", "o", "m", "p", "a", "r", "e">>)
    @@ ("video" :> <<"v", "i", "d", "e", "o">>)
    @@ ("content" :> <<"c", "o", "n", "t", "e", "n", "t">>)
    @@ ("article" :> <<"a", "r", "t", "i", "c", "l", "e">>)
    @@ ("guide" :> <<"g", "u", "i", "d", "e">>)
    @@ ("tutorial" :> <<"t", "u", "t", "o", "r", "i", "a", "l">>)
    @@ ("2024-01-01T10:00:00" :> <<"2", "0", "2", "4", "-", "0", "1", "-", "0", "1", "T", "1", "0", ":", "0", "0", ":", "0", "0">>)
    @@ ("2024-01-01T10:30:00Z" :> <<"2", "0", "2", "4", "-", "0", "1", "-", "0", "1", "T", "1", "0", ":", "3", "0", ":", "0", "0", "Z">>)
    @@ ("2024-01-01T10:30:00+00:00" :> <<"2", "0", "2", "4", "-", "0", "1", "-", "0", "1", "T", "1", "0", ":", "3", "0", ":", "0", "0", "+", "0", "0", ":", "0", "0">>)
    @@ ("not-a-date" :> <<"n", "o", "t", "-", "a", "-", "d", "a", "t", "e">>)
    @@ ("Purchase Completed" :> <<"P", "u", "r", "c", "h", "a", "s", "e", " ", "C", "o", "m", "p", "l", "e", "t", "e", "d">>)
    @@ ("Order Placed" :> <<"O", "r", "d", "e", "r", " ", "P", "l", "a", "c", "e", "d">>)
    @@ ("Checkout Started" :> <<"C", "h", "e", "c", "k", "o", "u", "t", " ", "S", "t", "a", "r", "t", "e", "d">>)
    @@ ("Cart Updated" :> <<"C", "a", "r", "t", " ", "U", "p", "d", "a", "t", "e", "d">>)
    @@ ("Purchase" :> <<"P", "u", "r", "c", "h", "a", "s", "e">>)
    @@ ("Order" :> <<"O", "r", "d", "e", "r">>)
    @@ ("Cart" :> <<"C", "a", "r", "t">>)
    @@ ("Checkout" :> <<"C", "h", "e", "c", "k", "o", "u", "t">>)
    @@ ("Product" :> <<"P", "r", "o", "d", "u", "c", "t">>)
    @@ ("Search" :> <<"S", "e", "a", "r", "c", "h">>)
    @@ ("Page" :> <<"P", "a", "g", "e">>)
    @@ ("Add" :> <<"A", "d", "d">>)
    @@ ("organic" :> <<"o", "r", "g", "a", "n", "i", "c">>)
    @@ ("paid" :> <<"p", "a", "i", "d">>)
    @@ ("social" :> <<"s", "o", "c", "i", "a", "l">>)
    @@ ("email" :> <<"e", "m", "a", "i", "l">>)
    @@ ("referral" :> <<"r", "e", "f", "e", "r", "r", "a", "l">>)
    @@ ("direct" :> <<"d", "i", "r", "e", "c", "t">>)
    @@ ("Organic Search" :> <<"O", "r", "g", "a", "n", "i", "c", " ", "S", "e", "a", "r", "c", "h">>)
    @@ ("CUSTOMER_ID" :> <<"C", "U", "S", "T", "O", "M", "E", "R", "_", "I", "D">>)
    @@ ("SESSION_ID" :> <<"S", "E", "S", "S", "I", "O", "N", "_", "I", "D">>)
    @@ ("CHANNEL_GROUPING" :> <<"C", "H", "A", "N", "N", "E", "L", "_", "G", "R", "O", "U", "P", "I", "N", "G">>)
    @@ ("PROPERTIES_SESSION_ID" :> <<"P", "R", "O", "P", "E", "R", "T", "I", "E", "S", "_", "S", "E", "S", "S", "I", "O", "N", "_", "I", "D">>)
    @@ ("PROPERTIES_CHANNEL_GROUPING" :> <<"P", "R", "O", "P", "E", "R", "T", "I", "E", "S", "_", "C", "H", "A", "N", "N", "E", "L", "_", "G", "R", "O", "U", "P", "I", "N", "G">>)
    @@ ("session_id" :> <<"s", "e", "s", "s", "i", "o", "n", "_", "i", "d">>)
    @@ ("channel_grouping" :> <<"c", "h", "a", "n", "n", "e", "l", "_", "g", "r", "o", "u", "p", "i", "n", "g">>)
    @@ ("properties" :> <<"p", "r", "o", "p", "e", "r", "t", "i", "e", "s">>)
    @@ ("properties_session_id" :> <<"p", "r", "o", "p", "e", "r", "t", "i", "e", "s", "_", "s", "e", "s", "s", "i", "o", "n", "_", "i", "d">>)
    @@ ("properties_channel_grouping" :> <<"p", "r", "o", "p", "e", "r", "t", "i", "e", "s", "_", "c", "h", "a", "n", "n", "e", "l", "_", "g", "r", "o", "u", "p", "i", "n", "g">>)
    @@ ("page_type" :> <<"p", "a", "g", "e", "_", "t", "y", "p", "e">>)
    @@ ("revenue" :> <<"r", "e", "v", "e", "n", "u", "e">>)
    @@ ("product_sku" :> <<"p", "r", "o", "d", "u", "c", "t", "_", "s", "k", "u">>)
    @@ ("" :> <<>>)
    @@ (" " :> <<" ">>)
    @@ ("evt_1" :> <<"e", "v", "t", "_", "1">>)
    @@ ("PROPERTIES" :> <<"P", "R", "O", "P", "E", "R", "T", "I", "E", "S">>)
    @@ ("EVENT_ID" :> <<"E", "V", "E", "N", "T", "_", "I", "D">>)
    @@ ("EVENT_NAME" :> <<"E", "V", "E", "N", "T", "_", "N", "A", "M", "E">>)
    @@ ("EVENT_TIMESTAMP" :> <<"E", "V", "E", "N", "T", "_", "T", "I", "M", "E", "S", "T", "A", "M", "P">>)
    @@ ("REVENUE" :> <<"R", "E", "V", "E", "N", "U", "E">>)
    @@ ("PAGE_TYPE" :> <<"P", "A", "G", "E", "_", "T", "Y", "P", "E">>)
    @@ ("PRODUCT_SKU" :> <<"P", "R", "O", "D", "U", "C", "T", "_", "S", "K", "U">>)

\* str.lower, on the letters that occur
LowerTable ==
    ("A" :> "a") @@ ("B" :> "b") @@ ("C" :> "c") @@ ("D" :> "d") @@
    ("E" :> "e") @@ ("F" :> "f") @@ ("G" :> "g") @@ ("H" :> "h") @@
    ("I" :> "i") @@ ("J" :> "j") @@ ("K" :> "k") @@ ("L" :> "l") @@
    ("M" :> "m") @@ ("N" :> "n") @@ ("O" :> "o") @@ ("P" :> "p") @@
    ("Q" :> "q") @@ ("R" :> "r") @@ ("S" :> "s") @@ ("T" :> "t") @@
    ("U" :> "u") @@ ("V" :> "v") @@ ("W" :> "w") @@ ("X" :> "x") @@
    ("Y" :> "y") @@ ("Z" :> "z")

LowerChar(c) == IF c \in DOMAIN LowerTable THEN LowerTable[c] ELSE c

Lower(cs) == [i \in 1..Len(cs) |-> LowerChar(cs[i])]

\* needle in hay
Contains(hay, needle) ==
    \E i \in 0..(Len(hay) - Len(needle)) :
        SubSeq(hay, i + 1, i + Len(needle)) = needle

\* str.startswith
StartsWith(cs, prefix) ==
    Len(cs) >= Len(prefix) /\ SubSeq(cs, 1, Len(prefix)) = prefix

\* str.strip, on blanks
RECURSIVE Strip(_)
Strip(cs) ==
    IF cs = <<>> THEN cs
    ELSE IF cs[1] = " " THEN Strip(Tail(cs))
    ELSE IF cs[Len(cs)] = " " THEN Strip(SubSeq(cs, 1, Len(cs) - 1))
    ELSE cs

\* str.replace('Z', '+00:00')
RECURSIVE ReplaceZ(_)
ReplaceZ(cs) ==
    IF cs = <<>> THEN <<>>
    ELSE (IF cs[1] = "Z" THEN <<"+", "0", "0", ":", "0", "0">> ELSE <<cs[1]>>)
             \o ReplaceZ(Tail(cs))

(***************************************************************************)
(* Event Parser: SessionProcessor.parse_csv_row and _categorize_event.     *)
(***************************************************************************)
\* SessionProcessor.__init__, lines 65-78, and the lists of lines 129-145
ecommerce_keywords == <<"purchase", "order", "cart", "checkout", "payment">>

vet_keywords ==
    <<"vet", "veterinary", "appointment", "health", "medical",
    "prescription", "medication", "treatment", "exam", "checkup">>

product_keywords ==
    <<"product", "item", "add to cart", "purchase", "buy", "cart",
    "checkout", "order", "review", "rating">>

account_keywords == <<"login", "register", "account", "profile">>

conversion_keywords == <<"conversion", "goal", "complete", "submit">>

engagement_keywords ==
    <<"search", "filter", "compare", "video", "content", "article",
    "guide", "tutorial", "review">>

\* any(keyword in event_lower for keyword in keywords)
AnyKeyword(event_lower, keywords) ==
    \E k \in 1..Len(keywords) : Contains(event_lower, Chars[keywords[k]])

\* event_name.lower() without the lowering
NameAsGiven(event_name) == Chars[event_name]

\* line 126
EventLower(event_name) == Lower(Chars[event_name])

\* SessionProcessor._categorize_event
categorize_event(event_name) ==
    LET event_lower == EventLower(event_name) IN
    IF AnyKeyword(event_lower, ecommerce_keywords) THEN "ecommerce"
    ELSE IF AnyKeyword(event_lower, vet_keywords) THEN "vet_care"
    ELSE IF AnyKeyword(event_lower, product_keywords) THEN "product"
    ELSE IF AnyKeyword(event_lower, account_keywords) THEN "account"
    ELSE IF AnyKeyword(event_lower, conversion_keywords) THEN "conversion"
    ELSE IF AnyKeyword(event_lower, engagement_keywords) THEN "engagement"
    ELSE "navigation"

\* datetime.fromisoformat: the texts it accepts and the time it gives
IsoTable ==
    ("2024-01-01T10:00:00" :> 36000) @@ ("2024-01-01T10:30:00+00:00" :> 37800)

IsIso(cs) == \E t \in DOMAIN IsoTable : Chars[t] = cs

FromIsoFormat(cs) == IsoTable[CHOOSE t \in DOMAIN IsoTable : Chars[t] = cs]

\* float(value) of safe_float: the texts it accepts, in hundredths
FloatTable == ("49.99" :> 4999) @@ ("-5" :> -500)

\* models.base.safe_float
safe_float(value) ==
    IF value = None THEN None
    ELSE IF value[1] \in DOMAIN FloatTable THEN Some(FloatTable[value[1]])
    ELSE None

\* models.base.validate_required_field: TRUE when it raises
RequiredFieldRaises(value) == Strip(Chars[value]) = <<>>

\* row.get(key, '') and row.get(key)
RowGetStr(r, key) == IF r[key] = None THEN "" ELSE r[key][1]

\* str.lower of the row keys
LowerKey ==
    ("EVENT_ID" :> "event_id") @@ ("EVENT_NAME" :> "event_name") @@
    ("EVENT_TIMESTAMP" :> "event_timestamp") @@ ("REVENUE" :> "revenue") @@
    ("PAGE_TYPE" :> "page_type") @@ ("PRODUCT_SKU" :> "product_sku") @@
    ("PROPERTIES_SESSION_ID" :> "properties_session_id") @@
    ("PROPERTIES_CHANNEL_GROUPING" :> "properties_channel_grouping")

\* lines 103-107: the keys copied into properties
CopiedKeys(r) ==
    {key \in DOMAIN r :
        /\ r[key] # None
        /\ \/ StartsWith(Chars[key], Chars["PROPERTIES"])
           \/ key \in {"PAGE_TYPE", "REVENUE", "PRODUCT_SKU"}
        /\ r[key][1] # ""}

RowProperties(r) ==
    IF CopiedKeys(r) = {} THEN None
    ELSE [lk \in {LowerKey[key] : key \in CopiedKeys(r)} |->
             r[CHOOSE key \in CopiedKeys(r) : LowerKey[key] = lk][1]]

Return(v) == [raised |-> FALSE, value |-> v]
Raise == [raised |-> TRUE, value |-> None]

\* lines 83-118: the body of the try block
ParseBody(r) ==
    LET event_id == RowGetStr(r, "EVENT_ID")
        event_name == RowGetStr(r, "EVENT_NAME")
        event_timestamp_str == RowGetStr(r, "EVENT_TIMESTAMP")
    IN  IF event_id = "" \/ event_name = "" \/ event_timestamp_str = ""
        THEN Return(None)
        ELSE IF ~ IsIso(ReplaceZ(Chars[event_timestamp_str]))
        THEN Return(None)
        ELSE IF RequiredFieldRaises(event_id) \/ RequiredFieldRaises(event_name)
        THEN Raise
        ELSE Return(Some(
                 SessionEvent(event_id, event_name,
                     FromIsoFormat(ReplaceZ(Chars[event_timestamp_str])),
                     categorize_event(event_name), safe_float(r["REVENUE"]),
                     RowProperties(r))
                 @@ [page_type |-> r["PAGE_TYPE"], product_sku |-> None]))

\* the try block without lines 120-122
ParseUnguarded(r) == ParseBody(r)

\* SessionProcessor.parse_csv_row
parse_csv_row(r) ==
    IF ParseBody(r).raised THEN Return(None) ELSE ParseBody(r)

(***************************************************************************)
(* Rows: each column is absent (None) or holds a text.                     *)
(***************************************************************************)
RowNames ==
    {"Prescription Ordered", "Vet Appointment Booked", "Product Added",
     "Product Viewed", "Add To Cart", "Item Review",
     "PURCHASE", "Login", "Goal Complete",
     "Profile Submit", "Search Performed", "Video Guide",
     "Page Viewed", "Health Exam", "Buy Now",
     "Reorder", "Checkup Complete", "Home"}

RowIds == {None, Some(""), Some(" "), Some("evt_1")}

RowEventNames == {None, Some(""), Some(" ")} \cup {Some(n) : n \in RowNames}

RowTimestamps ==
    {None, Some(""), Some(" "), Some("not-a-date"),
     Some("2024-01-01T10:00:00"), Some("2024-01-01T10:30:00Z")}

RowRevenues == {None, Some(""), Some("49.99"), Some("abc")}

RowPageTypes == {None, Some("product")}

Rows ==
    [EVENT_ID : RowIds, EVENT_NAME : RowEventNames,
     EVENT_TIMESTAMP : RowTimestamps, REVENUE : RowRevenues,
     PAGE_TYPE : RowPageTypes]

InitParse == Init /\ pc = "parse_input"

\* one row read from the file
ReadRow ==
    /\ pc = "parse_input"
    /\ row' \in {Some(r) : r \in Rows}
    /\ pc' = "row_read"
    /\ UNCHANGED <<events, total_score, importance_level, groups, session>>
    /\ UNCHANGED <<parsed, agentVars, narrVars, orchVars, graph, tplVars>>
    /\ UNCHANGED runVars

ParseCsvRow ==
    /\ pc = "row_read"
    /\ parsed' = Some(parse_csv_row(row[1]))
    /\ pc' = "parsed"
    /\ UNCHANGED <<events, total_score, importance_level, groups, session>>
    /\ UNCHANGED <<row, agentVars, narrVars, orchVars, graph, tplVars>>
    /\ UNCHANGED runVars

NextParse == ReadRow \/ ParseCsvRow

SpecParse == InitParse /\ [][NextParse]_vars

(***************************************************************************)
(* The Session Agent.  Scores are in hundredths (0.7 is 70) and a duration *)
(* is in seconds.  A text built from a template is the record of the       *)
(* template and the values put into it.  The collaborator is outside the   *)
(* program: what it does with the prompt is any of Responses.              *)
(***************************************************************************)
MaxCount == 17

\* f"{duration_minutes:.1f}": the number of tenths of a minute nearest to
\* seconds / 60 (the durations of the model are never half-way between two)
FormatTenths(seconds) == (seconds * 10 + 30) \div 60

Text(template, n, d) == [template |-> template, n |-> n, d |-> d]

Literal(text) == Text(text, None, None)

\* the mutant of _fallback_analysis: the first bucket starts at 15 events
FallbackFromFifteen(data) ==
    IF data.event_count >= 15
    THEN <<70, 60,
           Text("Conducted extensive exploration with {n} interactions over {d} minutes",
                Some(data.event_count),
                Some(FormatTenths(data.duration_seconds))),
           Literal("Research-oriented behavior suggesting comparison shopping and careful consideration")>>
    ELSE IF data.event_count > 5
    THEN <<50, 50,
           Text("Moderate browsing session with {n} page views over {d} minutes",
                Some(data.event_count),
                Some(FormatTenths(data.duration_seconds))),
           Literal("Standard exploration behavior with moderate engagement depth")>>
    ELSE <<40, 50,
           Text("Brief browsing session with {n} page views",
                Some(data.event_count), None),
           Literal("Casual exploration behavior with limited engagement depth")>>

fallback_analysis(data) ==
    IF data.event_count > 15
    THEN <<70, 60,
           Text("Conducted extensive exploration with {n} interactions over {d} minutes",
                Some(data.event_count),
                Some(FormatTenths(data.duration_seconds))),
           Literal("Research-oriented behavior suggesting comparison shopping and careful consideration")>>
    ELSE IF data.event_count > 5
    THEN <<50, 50,
           Text("Moderate browsing session with {n} page views over {d} minutes",
                Some(data.event_count),
                Some(FormatTenths(data.duration_seconds))),
           Literal("Standard exploration behavior with moderate engagement depth")>>
    ELSE <<40, 50,
           Text("Brief browsing session with {n} page views",
                Some(data.event_count), None),
           Literal("Casual exploration behavior with limited engagement depth")>>

\* json.loads: text that is not JSON raises, any JSON value is returned
json_loads(content) ==
    IF content.form = "text" THEN Raise ELSE Return(content)

\* result.get(key, default): only a dict has get
DictGet(result, key, default) ==
    IF result.form # "object" THEN Raise
    ELSE IF key \in DOMAIN result.members
    THEN Return(result.members[key])
    ELSE Return(default)

\* lines 115-122: the parse and the four lookups, any of which may raise
ReadReply(content) ==
    IF json_loads(content).raised THEN Raise
    ELSE LET result == json_loads(content).value
             importance == DictGet(result, "importance_score", 50)
             confidence == DictGet(result, "confidence_score", 80)
             summary ==
                 DictGet(result, "session_summary",
                         Literal("User engaged in browsing activities"))
             reasoning ==
                 DictGet(result, "session_reasoning",
                         Literal("Standard customer exploration behavior"))
         IN  IF \/ importance.raised
                \/ confidence.raised
                \/ summary.raised
                \/ reasoning.raised
             THEN Raise
             ELSE Return(<<importance.value, confidence.value,
                           summary.value, reasoning.value>>)

\* the try block of analyze_session
AnalyzeBody(data, reply) ==
    IF reply.kind = "raise" THEN Raise ELSE ReadReply(reply.content)

analyze_session(data, reply) ==
    IF AnalyzeBody(data, reply).raised
    THEN Return(fallback_analysis(data))
    ELSE AnalyzeBody(data, reply)

ReplyKeys ==
    {"importance_score", "confidence_score", "session_summary",
     "session_reasoning"}

ReplyValues ==
    [importance_score |-> 85,
     confidence_score |-> 92,
     session_summary |-> Literal("Bought a bag of dog food"),
     session_reasoning |-> Literal("Routine monthly reorder")]

\* quoted holds the keys whose value is a JSON string spelling the number,
\* as in "importance_score": "0.85"
JsonObject(keys) ==
    [form |-> "object", members |-> [k \in keys |-> ReplyValues[k]],
     quoted |-> {}]

JsonOther(form) == [form |-> form, members |-> <<>>, quoted |-> {}]

Responses ==
    {[kind |-> "raise", error |-> e, content |-> JsonOther("none")] :
        e \in {"timeout", "transport"}}
    \cup {[kind |-> "reply", error |-> "", content |-> JsonOther(f)] :
             f \in {"text", "list", "number", "string", "null"}}
    \cup {[kind |-> "reply", error |-> "", content |-> JsonObject(keys)] :
             keys \in SUBSET ReplyKeys}

AgentDurations == {0, 60, 754, 1800}

InitAgent == Init /\ pc = "agent_input"

\* _prepare_session_data, as far as the agent reads it
PrepareSessionData ==
    /\ pc = "agent_input"
    /\ \E n \in 1..MaxCount, d \in AgentDurations :
          session_data' = Some([event_count |-> n, duration_seconds |-> d])
    /\ pc' = "agent_ready"
    /\ UNCHANGED <<events, total_score, importance_level, groups, session>>
    /\ UNCHANGED <<parseVars, response, analysis, narrVars, orchVars, graph>>
    /\ UNCHANGED tplVars
    /\ UNCHANGED runVars

\* SessionAgent.analyze_session, with the collaborator's reply
AnalyzeSessionWithAgent ==
    /\ pc = "agent_ready"
    /\ \E reply \in Responses :
          /\ response' = Some(reply)
          /\ analysis' = Some(analyze_session(session_data[1], reply))
    /\ pc' = "agent_done"
    /\ UNCHANGED <<events, total_score, importance_level, groups, session>>
    /\ UNCHANGED <<parseVars, session_data, narrVars, orchVars, graph, tplVars>>
    /\ UNCHANGED runVars

NextAgent == PrepareSessionData \/ AnalyzeSessionWithAgent

SpecAgent == InitAgent /\ [][NextAgent]_vars

(***************************************************************************)
(* The narrative methods of a Session.  A confidence is held in 1800ths,   *)
(* so that the 1/20 an event adds is 90 and the 1/30 per minute that the   *)
(* duration adds is 1 per second: 0.4 is 720, 0.3 is 540, 0.2 is 360, 0.1  *)
(* is 180 and 1.0 is 1800.                                                 *)
(***************************************************************************)
MaxNarr == 4

\* e.event_name for e in events
Names(evs) == [i \in 1..Len(evs) |-> evs[i].event_name]

\* any(keyword in name for name in names for keyword in keywords)
AnyName(names, keywords) ==
    \E i \in 1..Len(names) :
        \E k \in 1..Len(keywords) :
            Contains(Chars[names[i]], Chars[keywords[k]])

\* the mutant of LastEvents: the whole session is inspected
AllEvents(evs) == evs

\* self.events[-3:] if len(self.events) >= 3 else self.events
LastEvents(evs) ==
    IF Len(evs) >= 3 THEN SubSeq(evs, Len(evs) - 2, Len(evs)) ELSE evs

generate_departure_mystery(s) ==
    IF s.events = <<>>
    THEN "Departed as quickly as they arrived - perhaps lost or disinterested."
    ELSE LET last_event_names == Names(LastEvents(s.events))
         IN  IF AnyName(last_event_names, <<"Purchase", "Order">>)
             THEN "Mission accomplished! Successfully completed their purchase and departed satisfied."
             ELSE IF AnyName(last_event_names, <<"Cart", "Checkout">>)
             THEN "Hesitation at the final frontier - left with items in cart, perhaps to return later."
             ELSE IF AnyName(last_event_names, <<"Product">>)
             THEN "Gathering intelligence on products - likely comparing options before making a decision."
             ELSE IF AnyName(last_event_names, <<"Search">>)
             THEN "Still seeking the perfect solution - departed mid-quest, possibly to continue elsewhere."
             ELSE IF AnyName(last_event_names, <<"Page">>)
             THEN "Casual exploration concluded - either found what they needed or lost interest."
             ELSE "Mysterious departure - their digital footsteps fade without clear resolution."

\* Session.calculate_duration_minutes, in seconds
DurationSeconds(s) ==
    IF s.session_end = None THEN 0 ELSE s.session_end[1] - s.session_start

calculate_confidence_score(s) ==
    IF s.events = <<>> THEN 180
    ELSE LET event_confidence == Min(Len(s.events) * 90, 720)
             duration_confidence == Min(DurationSeconds(s), 540)
             has_purchase == AnyName(Names(s.events), <<"Purchase">>)
             has_clear_goal ==
                 AnyName(Names(s.events),
                         <<"Search", "Product", "Cart", "Checkout">>)
             outcome == IF has_purchase THEN 540
                        ELSE IF has_clear_goal THEN 360 ELSE 0
         IN  Min(event_confidence + duration_confidence + outcome, 1800)

\* Session.generate_adventure_chronicle, lines 205-212: the number of events
\* whose name holds one of the keywords
CountNamed(evs, keywords) ==
    Len(SelectSeq(evs, LAMBDA e : AnyName(<<e.event_name>>, keywords)))

\* Session.generate_adventure_chronicle; the sentence is held as its opening
\* channel, the count of each activity clause (0 when the clause is left
\* out) and the engagement clause with its duration
generate_adventure_chronicle(s) ==
    IF s.events = <<>>
    THEN [brief |-> TRUE, channel |-> "", searches |-> 0, products |-> 0,
          cart_events |-> 0, purchases |-> 0, engagement |-> "",
          duration_seconds |-> 0]
    ELSE [brief |-> FALSE,
          channel |-> IF s.channel_grouping # None
                      THEN s.channel_grouping[1]
                      ELSE "unknown means",
          searches |-> CountNamed(s.events, <<"Search">>),
          products |-> CountNamed(s.events, <<"Product">>),
          cart_events |-> CountNamed(s.events, <<"Cart", "Add">>),
          purchases |-> CountNamed(s.events, <<"Purchase", "Order">>),
          engagement |->
              IF DurationSeconds(s) > 30 * 60 THEN "deep exploration"
              ELSE IF DurationSeconds(s) > 5 * 60 THEN "focused minutes"
              ELSE "swift reconnaissance",
          duration_seconds |->
              IF DurationSeconds(s) > 5 * 60 THEN DurationSeconds(s) ELSE 0]

NarrNames ==
    {"Purchase Completed", "Order Placed", "Checkout Started", "Cart Updated",
     "Product Viewed", "Search Performed", "Page Viewed", "Home"}

NarrTimes == {36000, 37800}

InitNarrative == Init /\ pc = "no_narrative"

\* Session(session_id=..., session_start=..., session_end=...)
ConstructSession ==
    /\ pc = "no_narrative"
    /\ \E start \in NarrTimes, end \in {None, Some(36000)} :
          session' = Some([session_id |-> <<"test_session_001">>,
                           customer_id |-> customer_id,
                           session_start |-> start,
                           session_end |-> end,
                           events |-> <<>>,
                           importance_level |-> "low"])
    /\ pc' = "narrative"
    /\ UNCHANGED <<events, total_score, importance_level, groups>>
    /\ UNCHANGED <<parseVars, agentVars, narrVars, orchVars, graph, tplVars>>
    /\ UNCHANGED runVars

AddNamedEvent ==
    /\ pc = "narrative"
    /\ Len(session[1].events) < MaxNarr
    /\ \E name \in NarrNames, ts \in NarrTimes :
          session' = Some(add_event(session[1],
                        SessionEvent(Len(session[1].events) + 1,
                                     name, ts, "None", None, None)))
    /\ UNCHANGED <<events, total_score, importance_level, groups, pc>>
    /\ UNCHANGED <<parseVars, agentVars, narrVars, orchVars, graph, tplVars>>
    /\ UNCHANGED runVars

\* session.departure_mystery = session.generate_departure_mystery()
\* session.confidence_score = session.calculate_confidence_score()
Narrate ==
    /\ pc = "narrative"
    /\ departure_mystery' = Some(generate_departure_mystery(session[1]))
    /\ confidence_score' = Some(calculate_confidence_score(session[1]))
    /\ pc' = "narrated"
    /\ UNCHANGED <<events, total_score, importance_level, groups, session>>
    /\ UNCHANGED <<parseVars, agentVars, orchVars, graph, tplVars>>
    /\ UNCHANGED runVars

NextNarrative == ConstructSession \/ AddNamedEvent \/ Narrate

SpecNarrative == InitNarrative /\ [][NextNarrative]_vars

(***************************************************************************)
(* The orchestrators: SessionAnalysisAgent.process_csv_file and            *)
(* IntelligentSessionAnalyzer.analyze_sessions_with_ai.  An exception      *)
(* raised while one session is analysed comes from outside the model (a    *)
(* malformed event object, the collaborator): fault[k] says whether the    *)
(* analysis of the k-th group raises, reply[k] is what the collaborator    *)
(* does for it.                                                            *)
(***************************************************************************)
MaxOrch == 6

min_events_for_analysis == 3

MIN_EVENTS_PER_SESSION == 2

IMPORTANCE_THRESHOLD == 40

\* the test of line 233 with a strict comparison
EnoughEventsStrict(session_events) ==
    Len(session_events) > min_events_for_analysis

\* line 233
EnoughEvents(session_events) ==
    Len(session_events) >= min_events_for_analysis

\* the except clause of _analyze_session with errors left empty
\* line 411 reading the column name as the parser stores it
ChannelPropertyPrefixed(event) ==
    IF "properties_channel_grouping" \in DOMAIN event.properties
    THEN event.properties.properties_channel_grouping
    ELSE ""

\* event.properties.get('channel_grouping', '')
ChannelProperty(event) ==
    IF "channel_grouping" \in DOMAIN event.properties
    THEN event.properties.channel_grouping
    ELSE ""

\* lines 411-422: the channel one event names, if any
ChannelNamed(event) ==
    LET channel == Lower(Chars[ChannelProperty(event)]) IN
    IF event.properties = <<>> THEN None
    ELSE IF Contains(channel, Chars["organic"]) THEN Some("Organic Search")
    ELSE IF Contains(channel, Chars["paid"]) THEN Some("Paid Search")
    ELSE IF Contains(channel, Chars["social"]) THEN Some("Social")
    ELSE IF Contains(channel, Chars["email"]) THEN Some("Email")
    ELSE IF Contains(channel, Chars["referral"]) THEN Some("Referral")
    ELSE IF Contains(channel, Chars["direct"]) THEN Some("Direct")
    ELSE None

\* SessionAnalysisAgent._determine_channel
RECURSIVE determine_channel(_, _)
determine_channel(evs, i) ==
    IF i > Len(evs) THEN "Direct"
    ELSE IF ChannelNamed(evs[i]) # None THEN ChannelNamed(evs[i])[1]
    ELSE determine_channel(evs, i + 1)

AnalysisFailedNoErrors(session_id, now) ==
    [session |-> [session_id |-> session_id,
                  customer_id |-> customer_id,
                  session_start |-> now,
                  session_end |-> None,
                  events |-> <<>>,
                  importance_level |-> "low",
                  channel_grouping |-> None,
                  adventure_chronicle |-> None,
                  departure_mystery |-> None,
                  confidence_score |-> 0],
     events_processed |-> 0,
     analysis_confidence |-> 0,
     errors |-> <<>>]

\* lines 345-354: the except clause of _analyze_session
AnalysisFailed(session_id, now) ==
    [session |-> [session_id |-> session_id,
                  customer_id |-> customer_id,
                  session_start |-> now,
                  session_end |-> None,
                  events |-> <<>>,
                  importance_level |-> "low",
                  channel_grouping |-> None,
                  adventure_chronicle |-> None,
                  departure_mystery |-> None,
                  confidence_score |-> 0],
     events_processed |-> 0,
     analysis_confidence |-> 0,
     errors |-> <<"error">>]

\* lines 306-343: the try block of _analyze_session when nothing raises
AnalysisDone(session_id, evs) ==
    LET sorted_events == Sorted(evs)
        built == [session_id |-> session_id,
                  customer_id |-> customer_id,
                  session_start |-> sorted_events[1].event_timestamp,
                  session_end |->
                      Some(sorted_events[Len(sorted_events)].event_timestamp),
                  events |-> sorted_events,
                  importance_level |->
                      ClassifyScore(TotalScore(sorted_events)),
                  channel_grouping |-> None]
    IN  [session |->
             [built EXCEPT !.channel_grouping =
                               Some(determine_channel(sorted_events, 1))]
             @@ [adventure_chronicle |->
                     Some(generate_adventure_chronicle(built)),
                 departure_mystery |->
                     Some(generate_departure_mystery(built)),
                 confidence_score |-> calculate_confidence_score(built)],
         events_processed |-> Len(evs),
         analysis_confidence |-> calculate_confidence_score(built),
         errors |-> <<>>]

\* SessionAnalysisAgent._analyze_session
AnalyzeSessionResult(session_id, evs, raises, now) ==
    IF raises THEN AnalysisFailed(session_id, now)
    ELSE AnalysisDone(session_id, evs)

\* SessionAnalysisResult.is_valid
is_valid(result) ==
    Len(result.errors) = 0 /\ result.session.session_id # <<>>

\* lines 231-235: the result of every call of _analyze_session, in order
RECURSIVE AnalyzeLoop(_, _, _, _, _)
AnalyzeLoop(session_groups, k, fault, now, done) ==
    IF k > Len(session_groups) THEN done
    ELSE AnalyzeLoop(session_groups, k + 1, fault, now,
             IF EnoughEvents(session_groups[k].events)
             THEN Append(done,
                         AnalyzeSessionResult(session_groups[k].session_id,
                                              session_groups[k].events,
                                              fault[k], now))
             ELSE done)

\* the filter of lines 240-241 letting every tier through
IsImportantAnyTier(result) ==
    result.session.importance_level
        \in {"critical", "significant", "moderate", "low"}

IsImportant(result) ==
    result.session.importance_level \in {"critical", "significant"}

\* process_csv_file from the events that were read: the groups, the result
\* of each analysis and the list that is returned
process_csv_file(evs, fault, now) ==
    IF evs = <<>>
    THEN [session_groups |-> <<>>, analysed |-> <<>>, returned |-> <<>>]
    ELSE LET session_groups == group_events_by_session_id(evs)
             each == AnalyzeLoop(session_groups, 1, fault, now, <<>>)
             results == SelectSeq(each, is_valid)
         IN  [session_groups |-> session_groups,
              analysed |-> each,
              returned |-> SelectSeq(results, IsImportant)]

\* group_events_into_sessions, lines 399-404, for rows of this customer
\* without a SESSION_ID column: the key is the hour of the event
HourSessionId(ts) == <<"session", customer_id, Day(ts), Hour(ts)>>

RECURSIVE HourLoop(_, _, _)
HourLoop(evs, i, sessions) ==
    IF i > Len(evs) THEN sessions
    ELSE HourLoop(evs, i + 1,
                  DictAppend(sessions, HourSessionId(evs[i].event_timestamp),
                             evs[i]))

group_events_into_sessions(evs) == HourLoop(evs, 1, <<>>)

\* _prepare_session_data
prepare_session_data(session_id, evs) ==
    [session_id |-> session_id,
     customer_id |-> customer_id,
     session_start |-> evs[1].event_timestamp,
     session_end |-> evs[Len(evs)].event_timestamp,
     events |-> evs,
     event_count |-> Len(evs),
     duration_seconds |->
         evs[Len(evs)].event_timestamp - evs[1].event_timestamp]

\* lines 478-490
SessionAnalysis(data, result) ==
    [session_id |-> data.session_id,
     customer_id |-> data.customer_id,
     session_start |-> data.session_start,
     session_end |-> data.session_end,
     events |-> data.events,
     event_count |-> data.event_count,
     duration_seconds |-> data.duration_seconds,
     importance_score |-> result[1],
     confidence_score |-> result[2],
     digital_chronicles |-> result[3],
     mindset_decoder |-> result[4]]

\* line 452 skipping a session of exactly MIN_EVENTS_PER_SESSION events too
TooShortOrEqual(evs) == Len(evs) <= MIN_EVENTS_PER_SESSION

\* line 452
TooShort(evs) == Len(evs) < MIN_EVENTS_PER_SESSION

NoCounts ==
    [skipped_short |-> 0, skipped_low_importance |-> 0, ai_failures |-> 0]

\* lines 447-499: the loop over session_events.items(); acc holds
\* analyzed_sessions and the three counters
\* the score under key came out of the reply as a str: the reply was read
\* without an exception and spells that score in quotes
ScoreIsStr(data, reply, key) ==
    /\ ~ AnalyzeBody(data, reply).raised
    /\ reply.content.form = "object"
    /\ key \in reply.content.quoted

\* line 473 with a strict comparison
MeetsThresholdStrict(importance_score) ==
    importance_score > IMPORTANCE_THRESHOLD

\* line 473
MeetsThreshold(importance_score) ==
    importance_score >= IMPORTANCE_THRESHOLD

\* lines 469-499, the try block and its handler on one session: a str
\* score raises TypeError in the comparison of line 473 (importance) or
\* ValueError in the :.2f of line 474 (confidence)
AiOutcome(data, reply) ==
    LET outcome == analyze_session(data, reply) IN
    IF outcome.raised \/ ScoreIsStr(data, reply, "importance_score")
    THEN "failure"
    ELSE IF MeetsThreshold(outcome.value[1])
    THEN IF ScoreIsStr(data, reply, "confidence_score")
         THEN "failure"
         ELSE "returned"
    ELSE "skipped_low_importance"

RECURSIVE AiLoop(_, _, _, _)
AiLoop(session_events, k, reply, acc) ==
    IF k > Len(session_events) THEN acc
    ELSE LET evs == session_events[k].events IN
         IF TooShort(evs)
         THEN AiLoop(session_events, k + 1, reply,
                     [acc EXCEPT !.counts.skipped_short = @ + 1])
         ELSE LET data == prepare_session_data(session_events[k].session_id,
                                               Sorted(evs))
                  outcome == analyze_session(data, reply[k])
                  ends == AiOutcome(data, reply[k])
              IN  AiLoop(session_events, k + 1, reply,
                    IF ends = "failure"
                    THEN [acc EXCEPT !.counts.ai_failures = @ + 1]
                    ELSE IF ends = "returned"
                    THEN [acc EXCEPT !.analyzed_sessions =
                              Append(@, SessionAnalysis(data, outcome.value))]
                    ELSE [acc EXCEPT !.counts.skipped_low_importance = @ + 1])

analyze_sessions_with_ai(session_events, reply) ==
    AiLoop(session_events, 1, reply,
           [analyzed_sessions |-> <<>>, counts |-> NoCounts])

\* the collaborator's replies: a timeout, the complete object, an empty
\* object, an object that rates the session 0.3, and the complete object
\* with the importance or the confidence in quotes
OrchReplies ==
    {[kind |-> "raise", error |-> "timeout", content |-> JsonOther("none")],
     [kind |-> "reply", error |-> "", content |-> JsonObject(ReplyKeys)],
     [kind |-> "reply", error |-> "", content |-> JsonObject({})],
     [kind |-> "reply", error |-> "",
      content |-> [form |-> "object",
                   members |-> [importance_score |-> 30,
                                confidence_score |-> 92],
                   quoted |-> {}]]}
    \cup {[kind |-> "reply", error |-> "",
           content |-> [JsonObject(ReplyKeys) EXCEPT !.quoted = {key}]] :
              key \in {"importance_score", "confidence_score"}}

OrchNames == {"Page Viewed", "Purchase"}

OrchTimes == {36000, 39600}

\* datetime.now() of line 349
NowTimes == {86400, 86401}

InitOrch == Init /\ pc = "orch_input"

AddOrchEvent ==
    /\ pc = "orch_input"
    /\ Len(events) < MaxOrch
    /\ \E name \in OrchNames, ts \in OrchTimes :
          events' = Append(events,
                       SessionEvent(Len(events) + 1, name, ts,
                                    categorize_event(name), None, None))
    /\ UNCHANGED <<total_score, importance_level, groups, session, pc>>
    /\ UNCHANGED <<parseVars, agentVars, narrVars, orchVars, graph, tplVars>>
    /\ UNCHANGED runVars

ProcessCsvFile ==
    /\ pc = "orch_input"
    /\ \E fault \in [1..Len(group_events_by_session_id(events)) -> BOOLEAN],
          now \in NowTimes :
          LET out == process_csv_file(events, fault, now) IN
          /\ injected' = fault
          /\ groups' = out.session_groups
          /\ analysed' = out.analysed
          /\ returned' = out.returned
    /\ counts' = NoCounts
    /\ pc' = "csv_processed"
    /\ UNCHANGED <<events, total_score, importance_level, session>>
    /\ UNCHANGED <<parseVars, agentVars, narrVars, graph, tplVars>>
    /\ UNCHANGED runVars

\* run_analysis, steps 2 and 3
AnalyzeSessionsWithAi ==
    /\ pc = "orch_input"
    /\ \E reply \in [1..Len(group_events_into_sessions(events))
                        -> OrchReplies] :
          LET session_events == group_events_into_sessions(events)
              out == analyze_sessions_with_ai(session_events, reply)
          IN  /\ injected' = reply
              /\ groups' = session_events
              /\ returned' = out.analyzed_sessions
              /\ counts' = out.counts
    /\ analysed' = <<>>
    /\ pc' = "ai_analysed"
    /\ UNCHANGED <<events, total_score, importance_level, session>>
    /\ UNCHANGED <<parseVars, agentVars, narrVars, graph, tplVars>>
    /\ UNCHANGED runVars

NextOrch == AddOrchEvent \/ ProcessCsvFile \/ AnalyzeSessionsWithAi

SpecOrch == InitOrch /\ [][NextOrch]_vars

(***************************************************************************)
(* create_graph_structure.  The graph store is outside the program: each   *)
(* write either returns or raises.  graph holds the batch, the position of *)
(* the loop, the two counters, the writes attempted so far and the Session *)
(* nodes that were written.                                                *)
(***************************************************************************)
MaxBatch == 5

Batch(n) == [k \in 1..n |-> <<"session", customer_id, k>>]

\* one loop iteration, with a failed write ending the loop
WriteOutcomeAborting(g, ok) ==
    IF ok
    THEN [g EXCEPT !.success_count = @ + 1,
                   !.i = @ + 1,
                   !.attempts = Append(@, g.sessions[g.i]),
                   !.written = Append(@, g.sessions[g.i])]
    ELSE [g EXCEPT !.failure_count = @ + 1,
                   !.i = Len(g.sessions) + 1,
                   !.attempts = Append(@, g.sessions[g.i])]

\* lines 568-579: one iteration of the loop; ok says whether
\* _create_session_node returned
WriteOutcome(g, ok) ==
    IF ok
    THEN [g EXCEPT !.success_count = @ + 1,
                   !.i = @ + 1,
                   !.attempts = Append(@, g.sessions[g.i]),
                   !.written = Append(@, g.sessions[g.i])]
    ELSE [g EXCEPT !.failure_count = @ + 1,
                   !.i = @ + 1,
                   !.attempts = Append(@, g.sessions[g.i])]

InitGraph == Init /\ pc = "graph_input"

\* create_graph_structure(sessions), up to the start of the loop:
\* _create_webdata_node divides by len(sessions) and writes the WebData
\* node, and what it raises leaves create_graph_structure
CreateWebdataNode ==
    /\ pc = "graph_input"
    /\ \E n \in 0..MaxBatch, ok \in BOOLEAN :
          /\ graph' = [sessions |-> Batch(n), i |-> 1, success_count |-> 0,
                       failure_count |-> 0, attempts |-> <<>>,
                       written |-> <<>>]
          /\ pc' = IF n = 0 \/ ~ ok THEN "graph_raised" ELSE "graph_loop"
    /\ UNCHANGED <<events, total_score, importance_level, groups, session>>
    /\ UNCHANGED <<parseVars, agentVars, narrVars, orchVars, tplVars>>
    /\ UNCHANGED runVars

CreateSessionNode ==
    /\ pc = "graph_loop"
    /\ graph.i <= Len(graph.sessions)
    /\ \E ok \in BOOLEAN : graph' = WriteOutcome(graph, ok)
    /\ UNCHANGED <<events, total_score, importance_level, groups, session, pc>>
    /\ UNCHANGED <<parseVars, agentVars, narrVars, orchVars, tplVars>>
    /\ UNCHANGED runVars

\* lines 581-584: the loop is over
GraphComplete ==
    /\ pc = "graph_loop"
    /\ graph.i > Len(graph.sessions)
    /\ pc' = "graph_done"
    /\ UNCHANGED <<events, total_score, importance_level, groups, session>>
    /\ UNCHANGED <<parseVars, agentVars, narrVars, orchVars, graph, tplVars>>
    /\ UNCHANGED runVars

NextGraph == CreateWebdataNode \/ CreateSessionNode \/ GraphComplete

SpecGraph == InitGraph /\ [][NextGraph]_vars

(***************************************************************************)
(* Session templates: generate_session_templates and, for reading a        *)
(* template back, Session.from_neo4j_record.  An ISO text is the tuple of  *)
(* the day, hour, minute and second that it spells; a SessionImportance    *)
(* member is named by its lower-case name.                                 *)
(***************************************************************************)
MaxTpl == 2

\* datetime.isoformat
isoformat(ts) == <<Day(ts), Hour(ts), Minute(ts), ts % 60>>

\* datetime.fromisoformat of such a text
fromisoformat(text) ==
    text[1] * 86400 + text[2] * 3600 + text[3] * 60 + text[4]

\* class SessionImportance: the value of each member
SessionImportanceValues ==
    [critical |-> "critical", significant |-> "significant",
     moderate |-> "moderate", low |-> "low"]

\* importance_level.name in place of importance_level.value
ImportanceName(level) ==
    [critical |-> "CRITICAL", significant |-> "SIGNIFICANT",
     moderate |-> "MODERATE", low |-> "LOW"][level]

\* importance_level.value
ImportanceValue(level) == SessionImportanceValues[level]

\* SessionImportance(value): the member with that value, or ValueError
SessionImportanceOf(value) ==
    IF \E m \in DOMAIN SessionImportanceValues :
           SessionImportanceValues[m] = value
    THEN Return(CHOOSE m \in DOMAIN SessionImportanceValues :
                    SessionImportanceValues[m] = value)
    ELSE Raise

\* lines 486-507: the template of one result
Template(result) ==
    [session_id |-> result.session.session_id,
     customer_id |-> result.session.customer_id,
     session_start |-> Some(isoformat(result.session.session_start)),
     session_end |->
         IF result.session.session_end # None
         THEN Some(isoformat(result.session.session_end[1]))
         ELSE None,
     departure_mystery |-> result.session.departure_mystery,
     importance_level |-> ImportanceValue(result.session.importance_level),
     confidence_score |-> result.session.confidence_score,
     events_processed |-> result.events_processed,
     analysis_confidence |-> result.analysis_confidence]

generate_session_templates(results) ==
    [k \in 1..Len(results) |-> Template(results[k])]

\* safe_float(record.get("confidence_score")) or 0.0, of a number
ConfidenceOrZero(value) == IF value = 0 THEN 0 ELSE value

\* Session.from_neo4j_record
from_neo4j_record(record) ==
    [session_id |-> record.session_id,
     customer_id |-> record.customer_id,
     session_start |->
         IF record.session_start # None
         THEN Some(fromisoformat(record.session_start[1]))
         ELSE None,
     session_end |->
         IF record.session_end # None
         THEN Some(fromisoformat(record.session_end[1]))
         ELSE None,
     departure_mystery |-> record.departure_mystery,
     importance_level |->
         IF SessionImportanceOf(record.importance_level).raised
         THEN "low"
         ELSE SessionImportanceOf(record.importance_level).value,
     confidence_score |-> ConfidenceOrZero(record.confidence_score),
     events |-> <<>>]

TplNames == {"Page Viewed", "Search Performed", "Cart Updated", "Purchase"}

TplTimes == {36000, 37799, 122461}

InitTpl == Init /\ pc = "tpl_input"

AddTplEvent ==
    /\ pc = "tpl_input"
    /\ Len(events) < MaxTpl
    /\ \E name \in TplNames, ts \in TplTimes :
          events' = Append(events,
                       SessionEvent(Len(events) + 1, name, ts,
                                    categorize_event(name), None, None))
    /\ UNCHANGED <<total_score, importance_level, groups, session, pc>>
    /\ UNCHANGED <<parseVars, agentVars, narrVars, orchVars, graph, tplVars>>
    /\ UNCHANGED runVars

\* _analyze_session on every group of the events
AnalyzeGroups ==
    /\ pc = "tpl_input"
    /\ events # <<>>
    /\ groups' = group_events_by_session_id(events)
    /\ \E fault \in [1..Len(group_events_by_session_id(events)) -> BOOLEAN],
          now \in NowTimes :
          /\ injected' = fault
          /\ analysed' =
                [k \in 1..Len(group_events_by_session_id(events)) |->
                    AnalyzeSessionResult(
                        group_events_by_session_id(events)[k].session_id,
                        group_events_by_session_id(events)[k].events,
                        fault[k], now)]
    /\ pc' = "tpl_analysed"
    /\ UNCHANGED <<events, total_score, importance_level, session>>
    /\ UNCHANGED <<parseVars, agentVars, narrVars, returned, counts, graph>>
    /\ UNCHANGED tplVars
    /\ UNCHANGED runVars

GenerateSessionTemplates ==
    /\ pc = "tpl_analysed"
    /\ templates' = generate_session_templates(analysed)
    /\ pc' = "tpl_generated"
    /\ UNCHANGED <<events, total_score, importance_level, groups, session>>
    /\ UNCHANGED <<parseVars, agentVars, narrVars, orchVars, graph, restored>>
    /\ UNCHANGED runVars

FromNeo4jRecord ==
    /\ pc = "tpl_generated"
    /\ restored' = [k \in 1..Len(templates) |->
                       from_neo4j_record(templates[k])]
    /\ pc' = "tpl_restored"
    /\ UNCHANGED <<events, total_score, importance_level, groups, session>>
    /\ UNCHANGED <<parseVars, agentVars, narrVars, orchVars, graph, templates>>
    /\ UNCHANGED runVars

NextTpl ==
    AddTplEvent \/ AnalyzeGroups \/ GenerateSessionTemplates
        \/ FromNeo4jRecord

SpecTpl == InitTpl /\ [][NextTpl]_vars

(***************************************************************************)
(* process_csv_file from the rows of the file.  A row holds the columns of *)
(* the Event Parser, CUSTOMER_ID, and session and channel columns under    *)
(* three spellings of their header.                                        *)
(***************************************************************************)
MaxCsvRows == 3

\* str(self.customer_id)
Str == (customer_id :> "289824860")

\* _read_csv_events, lines 262-271
RECURSIVE ReadLoop(_, _, _)
ReadLoop(rows, i, acc) ==
    IF i > Len(rows) THEN acc
    ELSE IF RowGetStr(rows[i], "CUSTOMER_ID") # Str[customer_id]
    THEN ReadLoop(rows, i + 1, acc)
    ELSE LET event == parse_csv_row(rows[i]).value IN
         IF event = None THEN ReadLoop(rows, i + 1, acc)
         ELSE ReadLoop(rows, i + 1, Append(acc, event[1]))

read_csv_events(rows) == ReadLoop(rows, 1, <<>>)

CsvExtraColumns ==
    {"SESSION_ID", "CHANNEL_GROUPING", "PROPERTIES_SESSION_ID",
     "PROPERTIES_CHANNEL_GROUPING", "session_id", "channel_grouping"}

CsvExtraValues ==
    [SESSION_ID |-> "A", CHANNEL_GROUPING |-> "Organic Search",
     PROPERTIES_SESSION_ID |-> "A",
     PROPERTIES_CHANNEL_GROUPING |-> "Organic Search",
     session_id |-> "A", channel_grouping |-> "Organic Search"]

\* the columns in present hold their value, the others are absent
CsvExtras(present) ==
    [c \in CsvExtraColumns |->
        IF c \in present THEN Some(CsvExtraValues[c]) ELSE None]

CsvHeaders ==
    {{}, {"SESSION_ID", "CHANNEL_GROUPING"},
     {"PROPERTIES_SESSION_ID", "PROPERTIES_CHANNEL_GROUPING"},
     {"session_id", "channel_grouping"}}

CsvRow(id, customer, ts, present) ==
    [EVENT_ID |-> id, EVENT_NAME |-> Some("Product Viewed"),
     EVENT_TIMESTAMP |-> Some(ts), REVENUE |-> None,
     PAGE_TYPE |-> Some("product"), CUSTOMER_ID |-> Some(customer)]
    @@ CsvExtras(present)

\* rows of this customer at 10:00:00 under each set of headers and one at
\* 10:30:00, a row of another customer and a row without EVENT_ID
CsvRows ==
    {CsvRow(Some("evt_1"), Str[customer_id], "2024-01-01T10:00:00", present) :
        present \in CsvHeaders}
    \cup {CsvRow(Some("evt_1"), Str[customer_id], "2024-01-01T10:30:00Z",
                 {"PROPERTIES_SESSION_ID", "PROPERTIES_CHANNEL_GROUPING"}),
          CsvRow(Some("evt_1"), "1", "2024-01-01T10:00:00", CsvExtraColumns),
          CsvRow(None, Str[customer_id], "2024-01-01T10:00:00",
                 CsvExtraColumns)}

InitCsv == Init /\ pc = "csv_input"

AddCsvRow ==
    /\ pc = "csv_input"
    /\ Len(csv_rows) < MaxCsvRows
    /\ \E r \in CsvRows : csv_rows' = Append(csv_rows, r)
    /\ UNCHANGED <<events, total_score, importance_level, groups, session>>
    /\ UNCHANGED <<pc, parseVars, agentVars, narrVars, orchVars, graph>>
    /\ UNCHANGED <<tplVars, run>>

\* process_csv_file, lines 220-247
ProcessCsvRows ==
    /\ pc = "csv_input"
    /\ LET evs == read_csv_events(csv_rows) IN
       \E fault \in [1..Len(group_events_by_session_id(evs)) -> BOOLEAN],
          now \in NowTimes :
          LET out == process_csv_file(evs, fault, now)
          IN  /\ events' = evs
              /\ injected' = fault
              /\ groups' = out.session_groups
              /\ analysed' = out.analysed
              /\ returned' = out.returned
    /\ pc' = "csv_file_processed"
    /\ UNCHANGED <<total_score, importance_level, session, counts>>
    /\ UNCHANGED <<parseVars, agentVars, narrVars, graph, tplVars, runVars>>

NextCsv == AddCsvRow \/ ProcessCsvRows

SpecCsv == InitCsv /\ [][NextCsv]_vars

(***************************************************************************)
(* run_analysis, step by step.  run holds the WebData and Session nodes    *)
(* the run found and those of them still there, the nodes it created, the  *)
(* step it reached, whether the input was opened, the driver and whether   *)
(* the run raised.                                                         *)
(***************************************************************************)
MaxRun == 3

MaxOldSessions == 2

\* line 589 dividing by len(sessions) without a guard for the empty list
AverageGuarded(sessions) == FALSE

\* line 589: sum(...) / len(sessions) raises ZeroDivisionError
AverageRaises(sessions) == Len(sessions) = 0

\* lines 568-579, the whole loop
RECURSIVE SessionNodeLoop(_, _)
SessionNodeLoop(g, oks) ==
    IF g.i > Len(g.sessions) THEN g
    ELSE SessionNodeLoop(WriteOutcome(g, oks[g.i]), oks)

InitRun == Init /\ pc = "run_input"

AddRunEvent ==
    /\ pc = "run_input"
    /\ Len(events) < MaxRun
    /\ \E ts \in OrchTimes :
          events' = Append(events,
                       SessionEvent(Len(events) + 1, "Page Viewed", ts,
                                    categorize_event("Page Viewed"), None,
                                    None))
    /\ UNCHANGED <<total_score, importance_level, groups, session, pc>>
    /\ UNCHANGED ext

\* run_analysis is called on a database that holds no WebData node of the
\* customer, or one with up to MaxOldSessions Session nodes
StartRun ==
    /\ pc = "run_input"
    /\ \E w \in {0, 1} :
          \E s \in IF w = 1 THEN 0..MaxOldSessions ELSE {0} :
              run' = [run EXCEPT !.found = [webdata |-> w, sessions |-> s],
                                 !.old_webdata = w,
                                 !.old_sessions = s]
    /\ pc' = "run_clear"
    /\ UNCHANGED <<events, total_score, importance_level, groups, session>>
    /\ UNCHANGED <<parseVars, agentVars, narrVars, orchVars, graph, tplVars>>
    /\ UNCHANGED csv_rows

\* step 1, clear_existing_data: the DETACH DELETE runs or raises
ClearExistingData ==
    /\ pc = "run_clear"
    /\ \E ok \in BOOLEAN :
          /\ run' = IF ok
                    THEN [run EXCEPT !.step = "clear",
                                     !.old_webdata = 0,
                                     !.old_sessions = 0]
                    ELSE [run EXCEPT !.step = "clear"]
          /\ pc' = IF ok THEN "run_group" ELSE "run_except"
    /\ UNCHANGED <<events, total_score, importance_level, groups, session>>
    /\ UNCHANGED <<parseVars, agentVars, narrVars, orchVars, graph, tplVars>>
    /\ UNCHANGED csv_rows

\* step 2, group_events_into_sessions: the file is opened and read, or the
\* exception is raised again by lines 423-425
GroupEventsIntoSessions ==
    /\ pc = "run_group"
    /\ run' = [run EXCEPT !.step = "group", !.input_read = TRUE]
    /\ \E ok \in BOOLEAN :
          /\ groups' = IF ok THEN group_events_into_sessions(events) ELSE <<>>
          /\ pc' = IF ok THEN "run_analyze" ELSE "run_except"
    /\ UNCHANGED <<events, total_score, importance_level, session>>
    /\ UNCHANGED <<parseVars, agentVars, narrVars, orchVars, graph, tplVars>>
    /\ UNCHANGED csv_rows

\* step 3, analyze_sessions_with_ai
AnalyzeRunSessions ==
    /\ pc = "run_analyze"
    /\ \E reply \in [1..Len(groups) -> OrchReplies] :
          LET out == analyze_sessions_with_ai(groups, reply)
          IN  /\ injected' = reply
              /\ returned' = out.analyzed_sessions
              /\ counts' = out.counts
    /\ run' = [run EXCEPT !.step = "analyze"]
    /\ pc' = "run_graph"
    /\ UNCHANGED <<events, total_score, importance_level, groups, session>>
    /\ UNCHANGED <<parseVars, agentVars, narrVars, analysed, graph, tplVars>>
    /\ UNCHANGED csv_rows

\* step 4, create_graph_structure: the WebData node, then the loop over
\* the sessions; webdata_ok and oks say which writes return
CreateGraphStructure ==
    /\ pc = "run_graph"
    /\ \E webdata_ok \in BOOLEAN, oks \in [1..Len(returned) -> BOOLEAN] :
          LET start == [sessions |->
                            [j \in 1..Len(returned) |->
                                returned[j].session_id],
                        i |-> 1, success_count |-> 0, failure_count |-> 0,
                        attempts |-> <<>>, written |-> <<>>]
          IN  IF AverageRaises(returned) \/ ~ webdata_ok
              THEN /\ graph' = start
                   /\ run' = [run EXCEPT !.step = "graph"]
                   /\ pc' = "run_except"
              ELSE /\ graph' = SessionNodeLoop(start, oks)
                   /\ run' = [run EXCEPT
                                 !.step = "graph",
                                 !.webdata = 1,
                                 !.session_nodes =
                                     SessionNodeLoop(start, oks).written]
                   /\ pc' = "run_finally"
    /\ UNCHANGED <<events, total_score, importance_level, groups, session>>
    /\ UNCHANGED <<parseVars, agentVars, narrVars, orchVars, tplVars>>
    /\ UNCHANGED csv_rows

\* lines 716-718: the exception is logged and raised again
RunExcept ==
    /\ pc = "run_except"
    /\ run' = [run EXCEPT !.raised = TRUE]
    /\ pc' = "run_finally"
    /\ UNCHANGED <<events, total_score, importance_level, groups, session>>
    /\ UNCHANGED <<parseVars, agentVars, narrVars, orchVars, graph, tplVars>>
    /\ UNCHANGED csv_rows

\* lines 719-720: the finally clause
RunFinally ==
    /\ pc = "run_finally"
    /\ run' = [run EXCEPT !.driver_open = FALSE]
    /\ pc' = IF run.raised THEN "run_raised" ELSE "run_returned"
    /\ UNCHANGED <<events, total_score, importance_level, groups, session>>
    /\ UNCHANGED <<parseVars, agentVars, narrVars, orchVars, graph, tplVars>>
    /\ UNCHANGED csv_rows

NextRun ==
    \/ AddRunEvent
    \/ StartRun
    \/ ClearExistingData
    \/ GroupEventsIntoSessions
    \/ AnalyzeRunSessions
    \/ CreateGraphStructure
    \/ RunExcept
    \/ RunFinally

SpecRun == InitRun /\ [][NextRun]_vars

Next == NextScore \/ NextGroup \/ NextSession \/ NextParse \/ NextAgent
            \/ NextNarrative \/ NextOrch \/ NextGraph \/ NextTpl
            \/ NextCsv \/ NextRun

Spec == Init /\ [][Next]_vars

(***************************************************************************)
(* Properties.                                                             *)
(***************************************************************************)
RECURSIVE SeqSum(_)
SeqSum(q) == IF q = <<>> THEN 0 ELSE q[1] + SeqSum(Tail(q))

Scored == pc = "scored"
Grouped == pc \in {"grouped_idle", "grouped_bucket"}

\* the emitted group that holds input event i (event ids are input positions)
GroupOf(i) ==
    CHOOSE k \in 1..Len(groups) :
        \E j \in 1..Len(groups[k].events) : groups[k].events[j].event_id = i

NoExplicitId(event) ==
    \/ event.properties = <<>>
    \/ event.properties.session_id = <<>>

\* C1: the tier returned by _determine_importance is fixed by the total
\* score alone: critical from 40, significant from 20 up to 40, moderate
\* from 8 up to 20, low under 8 (39.xx is never critical, 40 is).
C1_TierByCutoffs ==
    Scored =>
        /\ (total_score >= 4000 <=> importance_level = "critical")
        /\ (total_score >= 2000 /\ total_score < 4000
                <=> importance_level = "significant")
        /\ (total_score >= 800 /\ total_score < 2000
                <=> importance_level = "moderate")
        /\ (total_score < 800 <=> importance_level = "low")

\* C1 witness: a list scored exactly 40 (critical).
C1_Witness ==
    Scored /\ total_score = 4000 /\ importance_level = "critical"
        /\ Len(events) > 1

\* C2: the total is the sum over the events of name weight, category bonus
\* and capped positive revenue, plus the volume bonus (+15 above 20 events,
\* +8 for 11 to 20) and, from 2 events on, the duration bonus (+10 above
\* 30 minutes, +5 above 10 minutes); nothing else contributes.
C2_WeightOf(e) ==
    IF e.event_name \in DOMAIN event_importance_weights
    THEN 100 * event_importance_weights[e.event_name] ELSE 0

C2_CategoryOf(e) ==
    CASE e.event_category = "ecommerce" -> 1500
      [] e.event_category = "vet_care" -> 2000
      [] e.event_category = "product" -> 500
      [] OTHER -> 0

C2_RevenueOf(e) ==
    IF e.revenue # <<>> /\ e.revenue[1] > 0
    THEN (IF e.revenue[1] > 5000 THEN 5000 ELSE e.revenue[1])
    ELSE 0

C2_Volume(n) ==
    CASE n > 20 -> 1500
      [] n \in 11..20 -> 800
      [] OTHER -> 0

C2_Duration(evs) ==
    IF Len(evs) < 2 THEN 0
    ELSE LET d == evs[Len(evs)].event_timestamp - evs[1].event_timestamp
         IN  CASE d > 1800 -> 1000
               [] d > 600 /\ d <= 1800 -> 500
               [] OTHER -> 0

C2_TotalIsSumOfTerms ==
    Scored =>
        total_score =
            SeqSum([i \in 1..Len(events) |-> C2_WeightOf(events[i])])
            + SeqSum([i \in 1..Len(events) |-> C2_CategoryOf(events[i])])
            + SeqSum([i \in 1..Len(events) |-> C2_RevenueOf(events[i])])
            + C2_Volume(Len(events)) + C2_Duration(events)

\* C2 witness: 21 events, the revenue cap and the duration bonus at work.
C2_Witness ==
    /\ Scored
    /\ Len(events) = 21
    /\ events[21].event_timestamp - events[1].event_timestamp > 1800
    /\ \E i \in 1..Len(events) :
          events[i].revenue # <<>> /\ events[i].revenue[1] > 5000

\* C3: a list holding one of the five critical event names is critical,
\* whatever else it holds.
C3_CriticalNames ==
    {"Purchase", "Order Completed", "Payment Processed",
     "Vet Appointment Booked", "Prescription Ordered"}

C3_CriticalNameIsCritical ==
    Scored /\ (\E i \in 1..Len(events) :
                  events[i].event_name \in C3_CriticalNames)
        => importance_level = "critical"

\* C3 witness: 'Prescription Ordered' (weight 40, the lowest of the five)
\* carrying a negative revenue, beside another event.
C3_Witness ==
    /\ Scored
    /\ Len(events) >= 2
    /\ \E i \in 1..Len(events) :
          /\ events[i].event_name = "Prescription Ordered"
          /\ events[i].revenue # <<>> /\ events[i].revenue[1] < 0
    /\ importance_level = "critical"

\* C4: under group_events_by_session an event opens a session exactly when
\* it is the first or comes more than 30 minutes after the event before it
\* in timestamp order.
C4_NewSessionIffIdleGap ==
    pc = "grouped_idle" =>
        LET s == Sorted(events) IN
        \A i \in 2..Len(s) :
            (GroupOf(s[i].event_id) # GroupOf(s[i - 1].event_id))
                <=> (s[i].event_timestamp - s[i - 1].event_timestamp > 1800)

\* C5: under group_events_by_session two events more than 30 minutes apart
\* with no event between them are in different sessions, and no session
\* holds two neighbouring events more than 30 minutes apart.
C5_IdleGapSplits ==
    pc = "grouped_idle" =>
        /\ \A a, b \in 1..Len(events) :
              (/\ events[b].event_timestamp - events[a].event_timestamp > 1800
               /\ ~ \E c \in 1..Len(events) :
                       /\ events[a].event_timestamp < events[c].event_timestamp
                       /\ events[c].event_timestamp < events[b].event_timestamp)
                  => GroupOf(a) # GroupOf(b)
        /\ \A k \in 1..Len(groups) :
              \A j \in 1..(Len(groups[k].events) - 1) :
                  groups[k].events[j + 1].event_timestamp
                      - groups[k].events[j].event_timestamp <= 1800

\* C5 witness: two events 45 minutes apart, given latest first, split.
C5_Witness ==
    /\ pc = "grouped_idle"
    /\ Len(events) = 2
    /\ events[1].event_timestamp = 38700
    /\ events[2].event_timestamp = 36000
    /\ Len(groups) = 2

\* C6: under _group_events_by_session_id two events without an explicit
\* session identifier share a session iff they agree on date, hour and
\* minute // 30, and their session id is made of customer id, date, hour
\* and half-hour index.
C6_SameBucket(t1, t2) ==
    /\ t1 \div 86400 = t2 \div 86400
    /\ (t1 % 86400) \div 3600 = (t2 % 86400) \div 3600
    /\ ((t1 % 3600) \div 60) \div 30 = ((t2 % 3600) \div 60) \div 30

C6_HalfHourBuckets ==
    pc = "grouped_bucket" =>
        /\ \A a, b \in 1..Len(events) :
              NoExplicitId(events[a]) /\ NoExplicitId(events[b]) =>
                  (GroupOf(a) = GroupOf(b)
                      <=> C6_SameBucket(events[a].event_timestamp,
                                        events[b].event_timestamp))
        /\ \A a \in 1..Len(events) :
              NoExplicitId(events[a]) =>
                  LET t == events[a].event_timestamp IN
                  groups[GroupOf(a)].session_id =
                      <<"session", 289824860, t \div 86400,
                        (t % 86400) \div 3600, ((t % 3600) \div 60) \div 30>>

\* C6 witness: 10:29:59 and 10:30:00 without identifiers, one second apart,
\* in two sessions.
C6_Witness ==
    /\ pc = "grouped_bucket"
    /\ \E a, b \in 1..Len(events) :
          /\ NoExplicitId(events[a]) /\ NoExplicitId(events[b])
          /\ events[a].event_timestamp = 37799
          /\ events[b].event_timestamp = 37800
          /\ GroupOf(a) # GroupOf(b)

\* C7: under _group_events_by_session_id an event with a non-empty
\* session_id property is in the group keyed by exactly that value; equal
\* identifiers share a session at any distance in time, different ones
\* never do.
C7_ExplicitIdVerbatim ==
    pc = "grouped_bucket" =>
        /\ \A a \in 1..Len(events) :
              ~ NoExplicitId(events[a]) =>
                  groups[GroupOf(a)].session_id
                      = events[a].properties.session_id
        /\ \A a, b \in 1..Len(events) :
              ~ NoExplicitId(events[a]) /\ ~ NoExplicitId(events[b]) =>
                  (GroupOf(a) = GroupOf(b)
                      <=> events[a].properties.session_id
                              = events[b].properties.session_id)

\* C7 witness: two "A" events a day apart in one session, a simultaneous
\* "B" event in another.
C7_Witness ==
    /\ pc = "grouped_bucket"
    /\ \E a, b, c \in 1..Len(events) :
          /\ events[a].properties = [session_id |-> <<"A">>]
          /\ events[b].properties = [session_id |-> <<"A">>]
          /\ events[c].properties = [session_id |-> <<"B">>]
          /\ events[a].event_timestamp = 36000
          /\ events[b].event_timestamp = 122400
          /\ events[c].event_timestamp = 36000
          /\ GroupOf(a) = GroupOf(b)
          /\ GroupOf(a) # GroupOf(c)

\* C8: both groupers return a partition of their input: every input event
\* is in exactly one group exactly once, every grouped event is an input
\* event, and no group is empty.
C8_GroupsPartitionInput ==
    Grouped =>
        /\ \A i \in 1..Len(events) :
              Cardinality({kj \in (1..Len(groups)) \X (1..Len(events)) :
                  /\ kj[2] <= Len(groups[kj[1]].events)
                  /\ groups[kj[1]].events[kj[2]] = events[i]}) = 1
        /\ \A k \in 1..Len(groups) :
              /\ groups[k].events # <<>>
              /\ \A j \in 1..Len(groups[k].events) :
                    \E i \in 1..Len(events) : groups[k].events[j] = events[i]
        /\ SeqSum([k \in 1..Len(groups) |-> Len(groups[k].events)])
              = Len(events)

\* C8 witness: three events grouped into two sessions by the idle grouper.
C8_Witness ==
    pc = "grouped_idle" /\ Len(events) = 3 /\ Len(groups) = 2

\* C9: every emitted group is in non-decreasing timestamp order with ties
\* in input order, and a Session built by _analyze_session starts at its
\* first event, ends at its last event and has session_start <= session_end.
C9_StableOrder(evs) ==
    \A i, j \in 1..Len(evs) :
        i < j =>
            /\ evs[i].event_timestamp <= evs[j].event_timestamp
            /\ (evs[i].event_timestamp = evs[j].event_timestamp
                    => evs[i].event_id < evs[j].event_id)

C9_GroupsSortedSessionBounds ==
    /\ Grouped => \A k \in 1..Len(groups) : C9_StableOrder(groups[k].events)
    /\ pc = "analyzed" =>
          LET s == session[1] IN
          /\ C9_StableOrder(s.events)
          /\ s.session_start = s.events[1].event_timestamp
          /\ s.session_end = <<s.events[Len(s.events)].event_timestamp>>
          /\ s.session_start <= s.session_end[1]

\* C9 witness: an input given latest first, analysed into a Session that
\* holds two events of equal timestamp and a later one.
C9_Witness ==
    /\ pc = "analyzed"
    /\ Len(events) = 3
    /\ events[1].event_timestamp > events[2].event_timestamp
    /\ events[2].event_timestamp = events[3].event_timestamp
    /\ Len(session[1].events) = 3

\* C10: after any add_event calls, session_start <= session_end whenever
\* session_end is set, and the events list is in non-decreasing timestamp
\* order.
C10_AddEventKeepsOrder ==
    pc = "session" =>
        LET s == session[1] IN
        /\ s.session_end # <<>> => s.session_start <= s.session_end[1]
        /\ \A j \in 1..(Len(s.events) - 1) :
              s.events[j].event_timestamp <= s.events[j + 1].event_timestamp

Parsed == pc = "parsed"

\* C11: parse_csv_row never raises; it returns None when EVENT_ID,
\* EVENT_NAME or EVENT_TIMESTAMP is absent, empty or blank or the timestamp
\* does not parse, and otherwise an event with the row's id, name and
\* parsed timestamp, also when REVENUE is not a number.
C11_Blank(f) == f \in {<<>>, <<"">>, <<" ">>}

C11_Times ==
    ("2024-01-01T10:00:00" :> 36000) @@ ("2024-01-01T10:30:00Z" :> 37800)

C11_Dropped(r) ==
    \/ C11_Blank(r.EVENT_ID)
    \/ C11_Blank(r.EVENT_NAME)
    \/ C11_Blank(r.EVENT_TIMESTAMP)
    \/ r.EVENT_TIMESTAMP[1] \notin DOMAIN C11_Times

C11_ParserNeverRaises ==
    Parsed =>
        LET r == row[1]
            res == parsed[1]
        IN  /\ ~ res.raised
            /\ C11_Dropped(r) => res.value = <<>>
            /\ ~ C11_Dropped(r) =>
                  /\ res.value # <<>>
                  /\ res.value[1].event_id = r.EVENT_ID[1]
                  /\ res.value[1].event_name = r.EVENT_NAME[1]
                  /\ res.value[1].event_timestamp
                         = C11_Times[r.EVENT_TIMESTAMP[1]]

\* C11 witness: a row with a 'Z' timestamp and the REVENUE text "abc" gives
\* an event without revenue.
C11_Witness ==
    /\ Parsed
    /\ row[1].REVENUE = <<"abc">>
    /\ row[1].EVENT_TIMESTAMP = <<"2024-01-01T10:30:00Z">>
    /\ parsed[1].value # <<>>
    /\ parsed[1].value[1].revenue = <<>>
    /\ parsed[1].value[1].event_timestamp = 37800

\* C12: _categorize_event gives the category of the first keyword set, in
\* the order ecommerce, vet_care, product, account, conversion, engagement,
\* one of whose keywords occurs in the lower-cased name, and navigation
\* when none does.
C12_Sets ==
    <<[cat |-> "ecommerce",
       kws |-> {"purchase", "order", "cart", "checkout", "payment"}],
      [cat |-> "vet_care",
       kws |-> {"vet", "veterinary", "appointment", "health", "medical",
                "prescription", "medication", "treatment", "exam",
                "checkup"}],
      [cat |-> "product",
       kws |-> {"product", "item", "add to cart", "buy", "cart", "checkout",
                "order", "review", "rating"}],
      [cat |-> "account", kws |-> {"login", "register", "account", "profile"}],
      [cat |-> "conversion",
       kws |-> {"conversion", "goal", "complete", "submit"}],
      [cat |-> "engagement",
       kws |-> {"search", "filter", "compare", "video", "content", "article",
                "guide", "tutorial", "review"}]>>

C12_Matches(name, k) ==
    \E kw \in C12_Sets[k].kws : Contains(Lower(Chars[name]), Chars[kw])

C12_Expected(name) ==
    IF \E k \in 1..Len(C12_Sets) : C12_Matches(name, k)
    THEN LET first == CHOOSE k \in 1..Len(C12_Sets) :
                          /\ C12_Matches(name, k)
                          /\ \A j \in 1..(k - 1) : ~ C12_Matches(name, j)
         IN  C12_Sets[first].cat
    ELSE "navigation"

C12_FirstKeywordSetWins ==
    Parsed /\ parsed[1].value # <<>> =>
        parsed[1].value[1].event_category
            = C12_Expected(parsed[1].value[1].event_name)

\* C12 witness: 'Prescription Ordered' holds 'order' and 'prescription' and
\* is ecommerce.
C12_Witness ==
    /\ Parsed
    /\ parsed[1].value # <<>>
    /\ parsed[1].value[1].event_name = "Prescription Ordered"
    /\ parsed[1].value[1].event_category = "ecommerce"

AgentDone == pc = "agent_done"

C13_Template(n, d) ==
    IF n > 15
    THEN <<70, 60,
           [template |-> "Conducted extensive exploration with {n} interactions over {d} minutes",
            n |-> <<n>>, d |-> <<d>>],
           [template |-> "Research-oriented behavior suggesting comparison shopping and careful consideration",
            n |-> <<>>, d |-> <<>>]>>
    ELSE IF n >= 6
    THEN <<50, 50,
           [template |-> "Moderate browsing session with {n} page views over {d} minutes",
            n |-> <<n>>, d |-> <<d>>],
           [template |-> "Standard exploration behavior with moderate engagement depth",
            n |-> <<>>, d |-> <<>>]>>
    ELSE <<40, 50,
           [template |-> "Brief browsing session with {n} page views",
            n |-> <<n>>, d |-> <<>>],
           [template |-> "Casual exploration behavior with limited engagement depth",
            n |-> <<>>, d |-> <<>>]>>

\* C13: when the call to the collaborator raises, analyze_session raises
\* nothing and returns the event-count template: more than 15 events 0.7 /
\* 0.6 'Conducted extensive exploration', 6 to 15 events 0.5 / 0.5 'Moderate
\* browsing session', 5 or fewer 0.4 / 0.5 'Brief browsing session', each
\* with its fixed reasoning sentence.
C13_FallbackOnRaise ==
    AgentDone /\ response[1].kind = "raise" =>
        /\ ~ analysis[1].raised
        /\ analysis[1].value
               = C13_Template(session_data[1].event_count,
                              FormatTenths(session_data[1].duration_seconds))

\* C13 witness: a timeout on a 3-event session gives 'Brief browsing session
\* with 3 page views' and confidence 0.5.
C13_Witness ==
    /\ AgentDone
    /\ response[1].kind = "raise"
    /\ response[1].error = "timeout"
    /\ session_data[1].event_count = 3
    /\ analysis[1].value[2] = 50
    /\ analysis[1].value[3]
           = [template |-> "Brief browsing session with {n} page views",
              n |-> <<3>>, d |-> <<>>]

C14_Unparsable(reply) ==
    /\ reply.kind = "reply"
    /\ \/ reply.content.form # "object"
       \/ \E k \in ReplyKeys : k \notin DOMAIN reply.content.members

\* C14: when the collaborator's response is not JSON, is JSON but not an
\* object, or is an object missing any of importance_score,
\* confidence_score, session_summary, session_reasoning, analyze_session
\* returns the result of _fallback_analysis and raises nothing.
C14_FallbackOnUnparsable ==
    AgentDone /\ C14_Unparsable(response[1]) =>
        /\ ~ analysis[1].raised
        /\ analysis[1].value = fallback_analysis(session_data[1])

Narrated == pc = "narrated"

C15_Priority ==
    <<[kws |-> {"Purchase", "Order"},
       text |-> "Mission accomplished! Successfully completed their purchase and departed satisfied."],
      [kws |-> {"Cart", "Checkout"},
       text |-> "Hesitation at the final frontier - left with items in cart, perhaps to return later."],
      [kws |-> {"Product"},
       text |-> "Gathering intelligence on products - likely comparing options before making a decision."],
      [kws |-> {"Search"},
       text |-> "Still seeking the perfect solution - departed mid-quest, possibly to continue elsewhere."],
      [kws |-> {"Page"},
       text |-> "Casual exploration concluded - either found what they needed or lost interest."]>>

C15_LastNames(evs) ==
    {evs[i].event_name :
        i \in (IF Len(evs) > 3 THEN Len(evs) - 2 ELSE 1)..Len(evs)}

C15_Hit(names, k) ==
    \E name \in names :
        \E kw \in C15_Priority[k].kws : Contains(Chars[name], Chars[kw])

C15_Hypothesis(names) ==
    IF \E k \in 1..Len(C15_Priority) : C15_Hit(names, k)
    THEN LET first == CHOOSE k \in 1..Len(C15_Priority) :
                          /\ C15_Hit(names, k)
                          /\ \A j \in 1..(k - 1) : ~ C15_Hit(names, j)
         IN  C15_Priority[first].text
    ELSE "Mysterious departure - their digital footsteps fade without clear resolution."

\* C15: for a non-empty session generate_departure_mystery is decided by
\* the names of the last min(3, n) events alone and is the first hypothesis
\* that matches in the order Purchase/Order, Cart/Checkout, Product,
\* Search, Page, else unknown.
C15_DepartureByLastThree ==
    Narrated /\ session[1].events # <<>> =>
        departure_mystery[1] = C15_Hypothesis(C15_LastNames(session[1].events))

\* C15 witness: a purchase followed by three later events, among them
\* 'Checkout Started' and 'Cart Updated', is read as cart abandonment.
C15_Witness ==
    /\ Narrated
    /\ Len(session[1].events) = 4
    /\ session[1].events[1].event_name = "Purchase Completed"
    /\ session[1].events[2].event_name = "Page Viewed"
    /\ session[1].events[3].event_name = "Checkout Started"
    /\ session[1].events[4].event_name = "Cart Updated"
    /\ departure_mystery[1]
           = "Hesitation at the final frontier - left with items in cart, perhaps to return later."

\* C16: for every Session, however built, calculate_confidence_score is in
\* the closed range [0, 1] (0 to 1800 in 1800ths).
C16_ConfidenceInUnitRange ==
    Narrated => confidence_score[1] >= 0 /\ confidence_score[1] <= 1800

CsvProcessed == pc = "csv_processed"

AiAnalysed == pc = "ai_analysed"

C17_Sizes(gs) == [k \in 1..Len(gs) |-> Len(gs[k].events)]

\* the positions of the groups with at least min events, in order
RECURSIVE C17_Kept(_, _, _)
C17_Kept(gs, min, k) ==
    IF k > Len(gs) THEN <<>>
    ELSE IF Len(gs[k].events) >= min
    THEN <<k>> \o C17_Kept(gs, min, k + 1)
    ELSE C17_Kept(gs, min, k + 1)

C17_Csv ==
    LET kept == C17_Kept(groups, 3, 1) IN
    /\ Len(analysed) = Len(kept)
    /\ \A j \in 1..Len(kept) :
          /\ analysed[j].session.session_id = groups[kept[j]].session_id
          /\ (analysed[j].errors # <<>>) = injected[kept[j]]
          /\ ~ injected[kept[j]] =>
                /\ analysed[j].events_processed = Len(groups[kept[j]].events)
                /\ analysed[j].session.events = Sorted(groups[kept[j]].events)

C17_Ai ==
    LET kept == C17_Kept(groups, 2, 1)
        passed == SelectSeq(kept,
                      LAMBDA k : ~ (/\ injected[k].kind = "reply"
                                    /\ "importance_score"
                                           \in DOMAIN injected[k].content.members
                                    /\ \/ injected[k].content.members
                                             .importance_score < 40
                                       \/ injected[k].content.quoted # {}))
    IN  /\ counts.skipped_short = Len(groups) - Len(kept)
        /\ Len(returned) = Len(passed)
        /\ \A j \in 1..Len(passed) :
              /\ returned[j].session_id = groups[passed[j]].session_id
              /\ returned[j].events = Sorted(groups[passed[j]].events)

\* C17: the groupers emit every group, of any size >= 1; process_csv_file
\* analyses exactly the groups with at least 3 events and
\* analyze_sessions_with_ai exactly those with at least 2; a dropped group
\* raises nothing and the other groups are handled as if it were not there.
C17_SmallSessionsDroppedByOrchestrator ==
    /\ CsvProcessed \/ AiAnalysed =>
          /\ SeqSum(C17_Sizes(groups)) = Len(events)
          /\ \A k \in 1..Len(groups) : Len(groups[k].events) >= 1
    /\ CsvProcessed => C17_Csv
    /\ AiAnalysed => C17_Ai

\* C17 witness: a group of 2 events is emitted by the grouper and dropped
\* by process_csv_file while a group of 3 is analysed.
C17_Witness ==
    /\ CsvProcessed
    /\ Len(groups) = 2
    /\ Len(groups[1].events) = 2
    /\ Len(groups[2].events) = 3
    /\ Len(analysed) = 1
    /\ analysed[1].session.session_id = groups[2].session_id

\* C19: in process_csv_file a session whose analysis raises yields a result
\* with errors and is_valid false that is left out of the returned list,
\* every other session of at least 3 events is still analysed, and every
\* returned result has a non-empty session_id and no errors.
C19_FailedSessionLeftOut ==
    CsvProcessed =>
        /\ \A k \in 1..Len(groups) :
              Len(groups[k].events) >= 3 =>
                  \E j \in 1..Len(analysed) :
                      /\ analysed[j].session.session_id = groups[k].session_id
                      /\ injected[k] =>
                            /\ analysed[j].errors # <<>>
                            /\ ~ is_valid(analysed[j])
                            /\ \A r \in 1..Len(returned) :
                                  returned[r].session.session_id
                                      # groups[k].session_id
                      /\ ~ injected[k] =>
                            /\ analysed[j].errors = <<>>
                            /\ analysed[j].session.events
                                   = Sorted(groups[k].events)
                            /\ analysed[j].session.importance_level
                                     \in {"critical", "significant"}
                                 => \E r \in 1..Len(returned) :
                                        returned[r] = analysed[j]
        /\ \A r \in 1..Len(returned) :
              /\ returned[r].session.session_id # <<>>
              /\ returned[r].errors = <<>>

\* C19 witness: the first of two sessions raises and the second is returned.
C19_Witness ==
    /\ CsvProcessed
    /\ Len(groups) = 2
    /\ Len(analysed) = 2
    /\ injected[1]
    /\ ~ injected[2]
    /\ analysed[1].errors # <<>>
    /\ Len(returned) = 1
    /\ returned[1].session.session_id = groups[2].session_id

GraphDone == pc = "graph_done"

\* C18: in create_graph_structure a failed Session write is caught and
\* counted and every session of the batch is attempted exactly once, in
\* order; at the end success_count + failure_count is the number of
\* sessions.
C18_EverySessionAttempted ==
    /\ pc = "graph_loop" =>
          /\ graph.success_count + graph.failure_count = graph.i - 1
          /\ graph.attempts = SubSeq(graph.sessions, 1, graph.i - 1)
    /\ GraphDone =>
          /\ graph.success_count + graph.failure_count = Len(graph.sessions)
          /\ graph.attempts = graph.sessions
          /\ graph.success_count = Len(graph.written)

\* C18 witness: the second of three writes failed and the third was still
\* made.
C18_Witness ==
    /\ GraphDone
    /\ Len(graph.sessions) = 3
    /\ graph.failure_count = 1
    /\ graph.written = <<graph.sessions[1], graph.sessions[3]>>

Restored == pc = "tpl_restored"

\* C20: the template that generate_session_templates builds for a result,
\* read back with Session.from_neo4j_record, gives a Session with the same
\* session_id, importance tier, confidence score, session_start and
\* session_end.
C20_TemplateRoundTrip ==
    Restored =>
        /\ Len(restored) = Len(analysed)
        /\ \A k \in 1..Len(analysed) :
              /\ restored[k].session_id = analysed[k].session.session_id
              /\ restored[k].importance_level
                     = analysed[k].session.importance_level
              /\ restored[k].confidence_score
                     = analysed[k].session.confidence_score
              /\ restored[k].session_start
                     = <<analysed[k].session.session_start>>
              /\ restored[k].session_end = analysed[k].session.session_end

\* C20 witness: a critical session from 10:00:00 to 10:29:59 came back.
C20_Witness ==
    /\ Restored
    /\ Len(analysed) = 1
    /\ analysed[1].errors = <<>>
    /\ analysed[1].session.importance_level = "critical"
    /\ analysed[1].session.session_start = 36000
    /\ analysed[1].session.session_end = <<37799>>
    /\ restored[1].importance_level = "critical"
    /\ restored[1].session_end = <<37799>>

C22_HasName(evs, kws) ==
    \E i \in 1..Len(evs) :
        \E kw \in kws : Contains(Chars[evs[i].event_name], Chars[kw])

C22_Outcome(evs) ==
    IF C22_HasName(evs, {"Purchase", "Order"}) THEN 540
    ELSE IF C22_HasName(evs, {"Search", "Product", "Cart", "Checkout"})
    THEN 360
    ELSE 0

\* C22: for a non-empty session calculate_confidence_score is
\* min(event_count / 20, 0.4) + min(duration_minutes / 30, 0.3) + outcome,
\* capped at 1.0, where outcome is 0.3 when some event name contains
\* 'Purchase' or 'Order', else 0.2 when some name contains 'Search',
\* 'Product', 'Cart' or 'Checkout', else 0 (in 1800ths: 720, 540, 360).
C22_ConfidenceTerms ==
    Narrated /\ session[1].events # <<>> =>
        confidence_score[1]
            = Min(Min(Len(session[1].events) * 90, 720)
                      + Min(DurationSeconds(session[1]), 540)
                      + C22_Outcome(session[1].events),
                  1800)

\* C24: an event named 'Product Added' that goes through the Event Parser
\* is categorised ecommerce, so in _determine_importance it adds its name
\* weight 25 and the ecommerce bonus 15, 40 points in all.
C24_ProductAddedIsEcommerce ==
    /\ Parsed
    /\ parsed[1].value # <<>>
    /\ parsed[1].value[1].event_name = "Product Added"
    => /\ parsed[1].value[1].event_category = "ecommerce"
       /\ NameScore(parsed[1].value[1]) + CategoryScore(parsed[1].value[1])
              = Points(40)

C26_ReturnedIds == {returned[r].session.session_id : r \in 1..Len(returned)}

C26_Tier(evs) == ClassifyScore(TotalScore(Sorted(evs)))

\* C26: process_csv_file returns only results of tier critical or
\* significant; a session of at least 3 events scored moderate or low is
\* analysed and not returned, and every session of at least 3 events scored
\* critical or significant whose analysis succeeded is returned.
C26_OnlyImportantReturned ==
    CsvProcessed =>
        /\ \A r \in 1..Len(returned) :
              returned[r].session.importance_level
                  \in {"critical", "significant"}
        /\ \A k \in 1..Len(groups) :
              Len(groups[k].events) >= 3 /\ ~ injected[k] =>
                  /\ \E j \in 1..Len(analysed) :
                        /\ analysed[j].session.session_id
                               = groups[k].session_id
                        /\ analysed[j].session.importance_level
                               = C26_Tier(groups[k].events)
                  /\ (groups[k].session_id \in C26_ReturnedIds)
                         = (C26_Tier(groups[k].events)
                                \in {"critical", "significant"})

\* C26 witness: a low session and a critical session, both analysed, only
\* the critical one returned.
C26_Witness ==
    /\ CsvProcessed
    /\ Len(analysed) = 2
    /\ analysed[1].errors = <<>>
    /\ analysed[1].session.importance_level = "low"
    /\ analysed[2].session.importance_level = "critical"
    /\ Len(returned) = 1
    /\ returned[1] = analysed[2]

C27_Synthesized(k) == groups[k].session_id[1] = "session"

C27_Span(k) ==
    LET sorted_events == Sorted(groups[k].events) IN
    sorted_events[Len(sorted_events)].event_timestamp
        - sorted_events[1].event_timestamp

\* C27: with all timestamps in one UTC offset, a session whose identifier
\* was synthesized from the half-hour bucket spans strictly less than 30
\* minutes from first to last event, so its duration bonus is never the +10
\* one and is at most +5.
C27_BucketSessionsUnderHalfHour ==
    pc = "grouped_bucket" =>
        \A k \in 1..Len(groups) :
            C27_Synthesized(k) =>
                /\ C27_Span(k) < 30 * 60
                /\ DurationBonus(Sorted(groups[k].events)) # Points(10)
                /\ DurationBonus(Sorted(groups[k].events)) <= Points(5)

\* C27 witness: 10:00:00 and 10:29:59 in one synthesized session, 29
\* minutes 59 seconds long, with the +5 bonus.
C27_Witness ==
    /\ pc = "grouped_bucket"
    /\ \E k \in 1..Len(groups) :
          /\ C27_Synthesized(k)
          /\ C27_Span(k) = 1799
          /\ DurationBonus(Sorted(groups[k].events)) = Points(5)

C28_Data(k) ==
    prepare_session_data(groups[k].session_id, Sorted(groups[k].events))

\* the importance score of session k is a number at or above the threshold
C28_Important(k) ==
    /\ ~ ScoreIsStr(C28_Data(k), injected[k], "importance_score")
    /\ analyze_session(C28_Data(k), injected[k]).value[1]
           >= IMPORTANCE_THRESHOLD

\* the try block raises on session k
C28_Raises(k) ==
    \/ ScoreIsStr(C28_Data(k), injected[k], "importance_score")
    \/ /\ C28_Important(k)
       /\ ScoreIsStr(C28_Data(k), injected[k], "confidence_score")

C28_Positions == [k \in 1..Len(groups) |-> k]

C28_Long(k) == Len(groups[k].events) >= MIN_EVENTS_PER_SESSION

C28_Ids(positions) ==
    [j \in 1..Len(positions) |-> groups[positions[j]].session_id]

C28_ReturnedIds == [j \in 1..Len(returned) |-> returned[j].session_id]

C28_CountsSum ==
    /\ Len(returned) + counts.skipped_short + counts.skipped_low_importance
           + counts.ai_failures
           = Len(groups)
    /\ counts.skipped_short
           = Len(SelectSeq(C28_Positions, LAMBDA k : ~ C28_Long(k)))
    /\ counts.ai_failures
           = Len(SelectSeq(C28_Positions,
                           LAMBDA k : C28_Long(k) /\ C28_Raises(k)))
    /\ counts.skipped_low_importance
           = Len(SelectSeq(C28_Positions,
                           LAMBDA k : /\ C28_Long(k)
                                      /\ ~ C28_Raises(k)
                                      /\ ~ C28_Important(k)))
    /\ \A a, b \in 1..Len(returned) :
          returned[a].session_id = returned[b].session_id => a = b

C29_AlwaysFails == \A k \in 1..Len(groups) : injected[k].kind = "raise"

\* C29: with IMPORTANCE_THRESHOLD 0.4 and MIN_EVENTS_PER_SESSION 2, when
\* every call of the collaborator fails, analyze_sessions_with_ai returns
\* every session of at least 2 events, with a fallback importance of at
\* least 0.4, skips none as low importance and counts none as a failure.
C29_FallbackAlwaysPasses ==
    AiAnalysed /\ C29_AlwaysFails =>
        /\ [j \in 1..Len(returned) |-> returned[j].session_id]
               = C28_Ids(SelectSeq(C28_Positions,
                             LAMBDA k : Len(groups[k].events) >= 2))
        /\ \A j \in 1..Len(returned) :
              returned[j].importance_score \in {40, 50, 70}
        /\ counts.skipped_low_importance = 0
        /\ counts.ai_failures = 0

\* C29 witness: the collaborator fails on both sessions; the session of 2
\* events is returned at importance 0.4, the session of 1 event is skipped.
C29_Witness ==
    /\ AiAnalysed
    /\ C29_AlwaysFails
    /\ Len(groups) = 2
    /\ Len(groups[1].events) = 2
    /\ Len(groups[2].events) = 1
    /\ Len(returned) = 1
    /\ returned[1].session_id = groups[1].session_id
    /\ returned[1].importance_score = 40
    /\ counts.skipped_short = 1

\* C23: the adventure chronicle that _analyze_session stores on a session
\* opens with the channel value that _determine_channel assigns to the
\* session's channel_grouping in the same analysis.
C23_ChronicleNamesChannel ==
    CsvProcessed =>
        \A j \in 1..Len(analysed) :
            analysed[j].errors = <<>> =>
                /\ analysed[j].session.channel_grouping # None
                /\ analysed[j].session.adventure_chronicle # None
                /\ analysed[j].session.adventure_chronicle[1].channel
                       = analysed[j].session.channel_grouping[1]

CsvFileProcessed == pc = "csv_file_processed"

C25_KeyAllowed(key) ==
    \/ StartsWith(Chars[key], Chars["properties"])
    \/ key \in {"page_type", "revenue", "product_sku"}

RunEnded == pc \in {"run_raised", "run_returned"}

\* C30: run_analysis deletes the customer's WebData and Session nodes
\* before it reads the input; when no session survives the filtering the
\* WebData step raises, and the run ends raising with the old nodes deleted
\* and no WebData or Session node created; the driver is closed when the
\* run returns and when it raises.
C30_EmptyRunDeletesAndRaises ==
    /\ run.input_read => run.old_webdata = 0 /\ run.old_sessions = 0
    /\ RunEnded /\ run.step = "graph" /\ returned = <<>> =>
          /\ pc = "run_raised"
          /\ run.old_webdata = 0 /\ run.old_sessions = 0
          /\ run.webdata = 0 /\ run.session_nodes = <<>>
    /\ RunEnded => ~ run.driver_open
    /\ pc = "run_returned" => ~ run.raised /\ run.webdata = 1
    /\ pc = "run_raised" => run.raised

\* C30 witness: a run that found a WebData node with two Sessions and read
\* one session of one event, skipped as too short, ends raising with the
\* three nodes gone, nothing created and the driver closed.
C30_Witness ==
    /\ pc = "run_raised"
    /\ run.found = [webdata |-> 1, sessions |-> 2]
    /\ run.step = "graph"
    /\ Len(groups) = 1
    /\ counts.skipped_short = 1
    /\ returned = <<>>
    /\ run.old_webdata = 0 /\ run.old_sessions = 0
    /\ run.webdata = 0 /\ run.session_nodes = <<>>
    /\ ~ run.driver_open

====
